---- MODULE Spec2Model ----
(***************************************************************************)
(* A model of the CMM front end and tree-walking interpreter:              *)
(*   - CMMParser (src/src/CMMParser.cpp): recursive descent with            *)
(*     precedence climbing over a token stream, and the tables it fills    *)
(*     (BinOpPrecedence, InfixOpDefinition, FunctionDefinition,            *)
(*     TopLevelBlock);                                                     *)
(*   - CMMInterpreter (src/src/CMMInterpreter.cpp): execution of the       *)
(*     top-level statement list against a chain of environments.           *)
(* The lexer, the AST node constructors and the runtime value type are not *)
(* part of the modelled sources; the model takes the token stream as its   *)
(* input and builds nodes and values as plain records.                     *)
(***************************************************************************)
EXTENDS Integers, Sequences, FiniteSets, TLC

VARIABLES
  source,             \* the token stream the lexer delivers, in order
  Lexer,              \* [pos, diag]: index of the current token, diagnostics
  BinOpPrecedence,    \* CMMParser::BinOpPrecedence: symbol -> int8_t
  InfixOpDefinition,  \* CMMParser::InfixOpDefinition: symbol -> definition
  FunctionDefinition, \* CMMParser::FunctionDefinition: name -> definition
  TopLevelBlock,      \* statement list of the top-level block
  pc,                 \* where main is: parse loop, interpret loop, ended
  NextStmt,           \* interpret(): index of the next top-level statement
  TopLevelEnv,        \* CMMInterpreter::TopLevelEnv.VarMap
  Fatal,              \* message of the RuntimeError that ended the run, or ""
  Output,             \* values handed to the native print function
  History             \* calls made while executing, with their effect

vars == << source, Lexer, BinOpPrecedence, InfixOpDefinition,
           FunctionDefinition, TopLevelBlock, pc, NextStmt, TopLevelEnv,
           Fatal, Output, History >>

(***************************************************************************)
(* Tokens.  A token has a kind and the payload the lexer attaches to it.   *)
(* Double literals are held by their (integral) numeric value.             *)
(***************************************************************************)
Tk(k) == [Kind |-> k, StrVal |-> "", IntVal |-> 0, DoubleVal |-> 0, BoolVal |-> FALSE]
Id(s) == [Tk("Identifier") EXCEPT !.StrVal = s]
Sym(s) == [Tk("InfixOp") EXCEPT !.StrVal = s]
IntTok(n) == [Tk("Integer") EXCEPT !.IntVal = n]
DblTok(n) == [Tk("Double") EXCEPT !.DoubleVal = n]
StrTok(s) == [Tk("String") EXCEPT !.StrVal = s]
BoolTok(b) == [Tk("Boolean") EXCEPT !.BoolVal = b]

\* int8_t arithmetic: the value an int takes when stored in a signed byte.
ToInt8(n) == ((n + 128) % 256) - 128

\* InfixOpDefinitionAST::DefaultPrecedence (the grammar comment's example).
DefaultPrecedence == 12

(***************************************************************************)
(* Lexer interface used by the parser.  The state L the parse functions    *)
(* thread is [pos, diag, CurrentBlock]: the token cursor, the diagnostics  *)
(* reported, and the parser's list of open blocks.                         *)
(***************************************************************************)
getTok(L) == IF L.pos <= Len(source) THEN source[L.pos] ELSE Tk("Eof")
getKind(L) == getTok(L).Kind
Lex(L) == [L EXCEPT !.pos = IF @ <= Len(source) THEN @ + 1 ELSE @]
getLoc(L) == L.pos
seekLoc(L, Loc) == [L EXCEPT !.pos = Loc - 1]

\* the value of a call, bound once for the code that follows it
With(v, F(_)) == F(v)

Null == [kind |-> "null"]

\* Error reports and yields the failure signal; Warning only reports.
Warning(L, Msg) == [L EXCEPT !.diag = Append(@, [sev |-> "Warning", msg |-> Msg])]
Error(L, Msg) ==
  [err |-> TRUE, res |-> Null,
   L |-> [L EXCEPT !.diag = Append(@, [sev |-> "Error", msg |-> Msg])]]
Ok(L, Res) == [err |-> FALSE, res |-> Res, L |-> L]
Fail(r) == [err |-> TRUE, res |-> Null, L |-> r.L]

(***************************************************************************)
(* AST nodes.                                                              *)
(***************************************************************************)
IntAST(v) == [kind |-> "IntExpression", IntVal |-> v]
DoubleAST(v) == [kind |-> "DoubleExpression", DoubleVal |-> v]
BoolAST(v) == [kind |-> "BoolExpression", BoolVal |-> v]
StringAST(v) == [kind |-> "StringExpression", StrVal |-> v]
IdentifierAST(n) == [kind |-> "IdentifierExpression", Name |-> n]
FunctionCallAST(c, args, dyn) ==
  [kind |-> "FunctionCallExpression", Callee |-> c, Arguments |-> args, Dynamic |-> dyn]
BinaryOperatorAST(k, l, r) ==
  [kind |-> "BinaryOperatorExpression", OpKind |-> k, LHS |-> l, RHS |-> r]
UnaryOperatorAST(k, e) ==
  [kind |-> "UnaryOperatorExpression", OpKind |-> k, Operand |-> e]
InfixOpExprAST(s, l, r) ==
  [kind |-> "InfixOpExpression", Symbol |-> s, LHS |-> l, RHS |-> r]

\* BinaryOperatorAST::OperatorKind of an operator token.
OperatorKindOf(TokenKind) ==
  CASE TokenKind = "Plus" -> "Add"
    [] TokenKind = "Minus" -> "Minus"
    [] TokenKind = "Star" -> "Multiply"
    [] TokenKind = "Slash" -> "Division"
    [] TokenKind = "Percent" -> "Modulo"
    [] TokenKind = "AmpAmp" -> "LogicalAnd"
    [] TokenKind = "PipePipe" -> "LogicalOr"
    [] TokenKind = "Less" -> "Less"
    [] TokenKind = "LessEqual" -> "LessEqual"
    [] TokenKind = "EqualEqual" -> "Equal"
    [] TokenKind = "ExclaimEqual" -> "NotEqual"
    [] TokenKind = "Greater" -> "Greater"
    [] TokenKind = "GreaterEqual" -> "GreaterEqual"
    [] TokenKind = "Amp" -> "BitwiseAnd"
    [] TokenKind = "Pipe" -> "BitwiseOr"
    [] TokenKind = "Caret" -> "BitwiseXor"
    [] TokenKind = "LessLess" -> "LeftShift"
    [] TokenKind = "GreaterGreater" -> "RightShift"
    [] TokenKind = "Equal" -> "Assign"
    [] OTHER -> "Unknown"

\* BinaryOperatorAST::create and tryFoldBinOp build the operator node.
create(TokenKind, l, r) == BinaryOperatorAST(OperatorKindOf(TokenKind), l, r)
tryFoldBinOp(TokenKind, l, r) == create(TokenKind, l, r)
tryFoldUnaryOp(k, e) == UnaryOperatorAST(k, e)

BlockAST(stmts) == [kind |-> "BlockStatement", StatementList |-> stmts]
IfStatementAST(c, t, e) ==
  [kind |-> "IfStatement", Condition |-> c, StatementThen |-> t, StatementElse |-> e]
WhileStatementAST(c, s) == [kind |-> "WhileStatement", Condition |-> c, Statement |-> s]
ForStatementAST(i, c, p, s) ==
  [kind |-> "ForStatement", Init |-> i, Condition |-> c, Post |-> p, Statement |-> s]
ReturnStatementAST(v) == [kind |-> "ReturnStatement", ReturnValue |-> v]
BreakStatementAST == [kind |-> "BreakStatement"]
ContinueStatementAST == [kind |-> "ContinueStatement"]
ExprStatementAST(e) == [kind |-> "ExprStatement", Expression |-> e]
DeclarationAST(t, n, init, counts) ==
  [kind |-> "DeclarationStatement", Type |-> t, Name |-> n,
   Initializer |-> init, CountExprList |-> counts]
DeclarationListAST(t, decls) ==
  [kind |-> "DeclarationListStatement", Type |-> t, DeclarationList |-> decls]

(***************************************************************************)
(* Expressions.  Every parse function takes the lexer state and returns    *)
(* [err, res, L]: the failure signal, the node built, the lexer state.     *)
(***************************************************************************)
RECURSIVE parseExpression(_), parsePrimaryExpression(_), parseBinOpRHS(_, _, _),
          BinOpRHSLoop(_, _, _), parseParenExpression(_),
          parseIdentifierExpression(_), parseArgumentList(_, _),
          IndexLoop(_, _), parseStatement(_), parseBlock(_), BlockLoop(_, _),
          DeclarationLoop(_, _, _), CountExprLoop(_, _)

getBinOpPrecedence(L) ==
  LET k == getKind(L) IN
  CASE k = "Equal" -> 1
    [] k = "PipePipe" -> 2
    [] k = "AmpAmp" -> 3
    [] k = "Pipe" -> 4
    [] k = "Caret" -> 5
    [] k = "Amp" -> 6
    [] k \in {"EqualEqual", "ExclaimEqual"} -> 7
    [] k \in {"Less", "LessEqual", "Greater", "GreaterEqual"} -> 8
    [] k \in {"LessLess", "GreaterGreater"} -> 9
    [] k \in {"Plus", "Minus"} -> 10
    [] k \in {"Star", "Slash", "Percent"} -> 11
    [] k = "InfixOp" ->
         IF getTok(L).StrVal \in DOMAIN BinOpPrecedence
           THEN BinOpPrecedence[getTok(L).StrVal]
           ELSE -1
    [] OTHER -> -1

parseExpression(L) ==
  With(parsePrimaryExpression(L), LAMBDA p :
  IF p.err THEN p ELSE parseBinOpRHS(1, p.res, p.L))

parseParenExpression(L) ==
  With(parseExpression(Lex(L)), LAMBDA e :
  IF e.err THEN e
  ELSE IF getKind(e.L) # "RParen"
    THEN Error(e.L, "expected ')' in parentheses expression")
  ELSE Ok(Lex(e.L), e.res))

parseConstantExpression(L) ==
  LET t == getTok(L) IN
  CASE t.Kind = "Integer" -> Ok(Lex(L), IntAST(t.IntVal))
    [] t.Kind = "Double" -> Ok(Lex(L), DoubleAST(t.DoubleVal))
    [] t.Kind = "Boolean" -> Ok(Lex(L), BoolAST(t.BoolVal))
    [] t.Kind = "String" -> Ok(Lex(L), StringAST(t.StrVal))
    [] OTHER -> Error(L, "unknown token in literal constant expression")

\* argumentList ::= Expression ("," Expression)*
parseArgumentList(L, Args) ==
  With(parseExpression(L), LAMBDA e :
  IF e.err THEN e
  ELSE IF getKind(e.L) # "Comma" THEN Ok(e.L, Append(Args, e.res))
  ELSE parseArgumentList(Lex(e.L), Append(Args, e.res)))

parseOptionalArgList(L) ==
  IF getKind(L) = "RParen" THEN Ok(L, << >>) ELSE parseArgumentList(L, << >>)

parseIdentifierExpression(L) ==
  LET Identifier == getTok(L).StrVal
      L1 == Lex(L)
      Dynamic == getKind(L1) = "Exclaim"
      L2 == IF Dynamic THEN Lex(L1) ELSE L1
  IN
  IF getKind(L2) = "LParen"
    THEN With(parseOptionalArgList(Lex(L2)), LAMBDA a :
         IF a.err THEN a
         ELSE IF getKind(a.L) # "RParen"
           THEN Error(a.L, "expect ')' in function call")
         ELSE Ok(Lex(a.L), FunctionCallAST(Identifier, a.res, Dynamic)))
    ELSE Ok(IF Dynamic THEN Warning(L2, "trailing `!' is ignored in identifier")
                       ELSE L2,
            IdentifierAST(Identifier))

\* while (Lexer.is(Token::LBrac)) of parsePrimaryExpression
IndexLoop(L, Res) ==
  IF getKind(L) # "LBrac" THEN Ok(L, Res)
  ELSE With(parseExpression(Lex(L)), LAMBDA i :
       IF i.err THEN i
       ELSE IF getKind(i.L) # "RBrac"
         THEN Error(i.L, "RBrac ']' expected in index expression")
       ELSE IndexLoop(Lex(i.L), BinaryOperatorAST("Index", Res, i.res)))

UnaryKindOf(k) ==
  CASE k = "Plus" -> "Plus"
    [] k = "Minus" -> "Minus"
    [] k = "Tilde" -> "BitwiseNot"
    [] k = "Exclaim" -> "LogicalNot"

parsePrimaryExpression(L) ==
  LET k == getKind(L) IN
  CASE k = "LParen" -> parseParenExpression(L)
    [] k = "Identifier" ->
         With(parseIdentifierExpression(L), LAMBDA i :
         IF i.err THEN i ELSE IndexLoop(i.L, i.res))
    [] k \in {"Integer", "Double", "String", "Boolean"} -> parseConstantExpression(L)
    [] k \in {"Plus", "Minus", "Tilde", "Exclaim"} ->
         With(parsePrimaryExpression(Lex(L)), LAMBDA o :
         IF o.err THEN o ELSE Ok(o.L, tryFoldUnaryOp(UnaryKindOf(k), o.res)))
    [] OTHER -> Error(L, "unexpected token in expression")

\* the for (;;) loop of parseBinOpRHS
BinOpRHSLoop(ExprPrec, Res, L) ==
  LET TokenKind == getKind(L)
      TokPrec == getBinOpPrecedence(L)
  IN
  IF TokPrec < ExprPrec THEN Ok(L, Res)
  ELSE
    LET Symbol == getTok(L).StrVal IN
    With(parsePrimaryExpression(Lex(L)), LAMBDA p :
    IF p.err THEN p
    ELSE
      LET NextPrec == getBinOpPrecedence(p.L) IN
      With(IF TokPrec < NextPrec
                 THEN parseBinOpRHS(ToInt8(TokPrec + 1), p.res, p.L)
                 ELSE p, LAMBDA r :
      IF r.err THEN r
      ELSE BinOpRHSLoop(ExprPrec,
                        IF TokenKind = "InfixOp"
                          THEN InfixOpExprAST(Symbol, Res, r.res)
                          ELSE tryFoldBinOp(TokenKind, Res, r.res),
                        r.L)))

parseBinOpRHS(ExprPrec, Res, L) ==
  IF getKind(L) = "Equal"
    THEN With(parseExpression(Lex(L)), LAMBDA e :
         IF e.err THEN e ELSE Ok(e.L, create("Equal", Res, e.res)))
    ELSE BinOpRHSLoop(ExprPrec, Res, L)


(***************************************************************************)
(* Statements.                                                             *)
(***************************************************************************)
parseTypeSpecifier(L) ==
  LET k == getKind(L) IN
  CASE k = "Kw_bool" -> Ok(Lex(L), "BoolType")
    [] k = "Kw_int" -> Ok(Lex(L), "IntType")
    [] k = "Kw_double" -> Ok(Lex(L), "DoubleType")
    [] k = "Kw_void" -> Ok(Lex(L), "VoidType")
    [] k = "Kw_string" -> Ok(Lex(L), "StringType")
    [] OTHER -> Error(L, "unknown type specifier")

parseEmptyStatement(L) == Ok(Lex(Warning(L, "empty statement")), Null)

parseExprStatement(L) ==
  With(parseExpression(L), LAMBDA e :
  IF e.err THEN e
  ELSE IF getKind(e.L) # "Semicolon"
    THEN Error(e.L, "missing semicolon in statement")
  ELSE Ok(Lex(e.L), ExprStatementAST(e.res)))

parseReturnStatement(L) ==
  LET L1 == Lex(L) IN
  With(IF getKind(L1) # "Semicolon" THEN parseExpression(L1) ELSE Ok(L1, Null), LAMBDA e :
  IF e.err THEN e
  ELSE IF getKind(e.L) # "Semicolon"
    THEN Error(e.L, "unexpected token after return value")
  ELSE Ok(Lex(e.L), ReturnStatementAST(e.res)))

parseBreakStatement(L) ==
  IF getKind(Lex(L)) # "Semicolon"
    THEN Error(Lex(L), "unexpected token after break")
    ELSE Ok(Lex(Lex(L)), BreakStatementAST)

parseContinueStatement(L) ==
  IF getKind(Lex(L)) # "Semicolon"
    THEN Error(Lex(L), "unexpected token after continue")
    ELSE Ok(Lex(Lex(L)), ContinueStatementAST)

\* while (Lexer.is(Token::LBrac)) of parseDeclarationStatement
CountExprLoop(L, Counts) ==
  IF getKind(L) # "LBrac" THEN Ok(L, Counts)
  ELSE With(parseExpression(Lex(L)), LAMBDA c :
       IF c.err THEN c
       ELSE IF getKind(c.L) # "RBrac"
         THEN Error(c.L, "RBrac ']' expected in array declaration")
       ELSE CountExprLoop(Lex(c.L), Append(Counts, c.res)))

\* the for (;;) loop of parseDeclarationStatement(Type, Res)
DeclarationLoop(Type, L, Decls) ==
  IF getKind(L) # "Identifier" THEN Error(L, "identifier expected")
  ELSE
    LET Name == getTok(L).StrVal IN
    With(CountExprLoop(Lex(L), << >>), LAMBDA c :
    IF c.err THEN c
    ELSE
      With(IF getKind(c.L) = "Equal" THEN parseExpression(Lex(c.L))
                                         ELSE Ok(c.L, Null), LAMBDA i :
      IF i.err THEN i
      ELSE
        LET Ds == Append(Decls, DeclarationAST(Type, Name, i.res, c.res)) IN
        IF getKind(i.L) = "Comma" THEN DeclarationLoop(Type, Lex(i.L), Ds)
        ELSE IF getKind(i.L) # "Semicolon"
          THEN Error(i.L, "expected semicolon in the declaration")
        ELSE Ok(Lex(i.L), DeclarationListAST(Type, Ds))))

\* parseDeclarationStatement(cvm::BasicType Type, Res)
parseDeclarationStatementOf(Type, L) == DeclarationLoop(Type, L, << >>)

\* parseDeclarationStatement(Res)
parseDeclarationStatement(L) ==
  With(parseTypeSpecifier(L), LAMBDA t :
  IF t.err THEN t ELSE parseDeclarationStatementOf(t.res, t.L))

parseIfStatement(L) ==
  LET L1 == Lex(L) IN
  IF getKind(L1) # "LParen" THEN Error(L1, "left parenthesis expected")
  ELSE
    With(parseExpression(Lex(L1)), LAMBDA c :
    IF c.err THEN c
    ELSE IF getKind(c.L) # "RParen" THEN Error(c.L, "right parenthesis expected")
    ELSE
      With(parseStatement(Lex(c.L)), LAMBDA t :
      IF t.err THEN t
      ELSE IF getKind(t.L) = "Kw_else"
        THEN With(parseStatement(Lex(t.L)), LAMBDA e :
             IF e.err THEN e ELSE Ok(e.L, IfStatementAST(c.res, t.res, e.res)))
        ELSE Ok(t.L, IfStatementAST(c.res, t.res, Null))))

parseWhileStatement(L) ==
  LET L1 == Lex(L) IN
  IF getKind(L1) # "LParen" THEN Error(L1, "left parenthesis expected in while loop")
  ELSE
    With(parseExpression(Lex(L1)), LAMBDA c :
    IF c.err THEN c
    ELSE IF getKind(c.L) # "RParen"
      THEN Error(c.L, "right parenthesis expected in while loop")
    ELSE
      With(parseStatement(Lex(c.L)), LAMBDA s :
      IF s.err THEN s ELSE Ok(s.L, WhileStatementAST(c.res, s.res))))

parseForStatement(L) ==
  LET L1 == Lex(L) IN
  IF getKind(L1) # "LParen" THEN Error(L1, "left parenthesis expected in for loop")
  ELSE
    LET L2 == Lex(L1) IN
    With(IF getKind(L2) # "Semicolon" THEN parseExpression(L2) ELSE Ok(L2, Null), LAMBDA i :
    IF i.err THEN i
    ELSE IF getKind(i.L) # "Semicolon"
      THEN Error(i.L, "missing semicolon for initial expression in for loop")
    ELSE
      LET L3 == Lex(i.L) IN
      With(IF getKind(L3) # "Semicolon" THEN parseExpression(L3) ELSE Ok(L3, Null), LAMBDA c :
      IF c.err THEN c
      ELSE IF getKind(c.L) # "Semicolon"
        THEN Error(c.L, "missing semicolon for conditional expression in for loop")
      ELSE
        LET L4 == Lex(c.L) IN
        With(IF getKind(L4) # "RParen" THEN parseExpression(L4) ELSE Ok(L4, Null), LAMBDA q :
        IF q.err THEN q
        ELSE IF getKind(q.L) # "RParen"
          THEN Error(q.L, "missing semicolon for post expression in for loop")
        ELSE
          With(parseStatement(Lex(q.L)), LAMBDA s :
          IF s.err THEN s
          ELSE Ok(s.L, ForStatementAST(i.res, c.res, q.res, s.res))))))

\* while (Lexer.isNot(Token::RCurly)) of parseBlock: the statements up to
\* the closing brace
BlockLoop(L, Stmts) ==
  IF getKind(L) = "RCurly" THEN Ok(L, Stmts)
  ELSE With(parseStatement(L), LAMBDA s :
       IF s.err THEN s ELSE BlockLoop(s.L, Append(Stmts, s.res)))

\* a failed assert ends the process
AssertionFailed(L, Msg) ==
  [err |-> TRUE, res |-> Null,
   L |-> [L EXCEPT !.diag = Append(@, [sev |-> "Assertion", msg |-> Msg])]]

\* a variant of parseBlock that leaves the block it made as current
parseBlockNoRestore(L) ==
  With(BlockLoop(Lex([L EXCEPT !.CurrentBlock = Append(@, L.pos)]), << >>),
       LAMBDA b :
  IF b.err THEN b
  ELSE IF b.L.CurrentBlock = << >>
          \/ b.L.CurrentBlock[Len(b.L.CurrentBlock)] # L.pos
    THEN AssertionFailed(b.L, "block mismatch")
  ELSE Ok(Lex(b.L), BlockAST(b.res)))

\* CurrentBlock is the list of the open blocks, outermost first, each named
\* by the position of its opening brace: the last one is the block
\* CurrentBlock points to, the ones before it are reached by getOuterBlock.
parseBlock(L) ==
  IF getKind(L) # "LCurly"
    THEN AssertionFailed(L, "first token in parseBlock()")
  ELSE
    With(BlockLoop(Lex([L EXCEPT !.CurrentBlock = Append(@, L.pos)]), << >>),
         LAMBDA b :
    IF b.err THEN b
    ELSE IF b.L.CurrentBlock = << >>
            \/ b.L.CurrentBlock[Len(b.L.CurrentBlock)] # L.pos
      THEN AssertionFailed(b.L, "block mismatch")
    ELSE Ok(Lex([b.L EXCEPT !.CurrentBlock = SubSeq(@, 1, Len(@) - 1)]),
            BlockAST(b.res)))

parseStatement(L) ==
  LET k == getKind(L) IN
  CASE k = "LCurly" -> parseBlock(L)
    [] k = "Kw_if" -> parseIfStatement(L)
    [] k = "Kw_while" -> parseWhileStatement(L)
    [] k = "Kw_for" -> parseForStatement(L)
    [] k = "Kw_return" -> parseReturnStatement(L)
    [] k = "Kw_break" -> parseBreakStatement(L)
    [] k = "Kw_continue" -> parseContinueStatement(L)
    [] k = "Semicolon" -> parseEmptyStatement(L)
    [] k \in {"Kw_bool", "Kw_int", "Kw_double", "Kw_string"} ->
         parseDeclarationStatement(L)
    [] k = "Kw_void" -> Error(L, "`void' only appears before function definition")
    [] k \in {"LParen", "Identifier", "Double", "String", "Boolean", "Integer",
              "Plus", "Minus", "Tilde", "Exclaim"} -> parseExprStatement(L)
    [] OTHER -> Error(L, "unexpected token in statement")


(***************************************************************************)
(* Top-level entities.  These return [err, L, prec, infix, func, stmts]:   *)
(* the failure signal, the lexer state and the parser's four tables.       *)
(***************************************************************************)
\* std::map::emplace: inserts only when the key is absent.
emplace(map, key, val) ==
  IF key \in DOMAIN map THEN map
  ELSE [k \in DOMAIN map \cup {key} |-> IF k = key THEN val ELSE map[k]]

Tables(err, L, prec, infix, func, stmts) ==
  [err |-> err, L |-> L, prec |-> prec, infix |-> infix, func |-> func,
   stmts |-> stmts]

\* A parse function failed: the tables are as they were.
Abort(r) ==
  Tables(TRUE, r.L, BinOpPrecedence, InfixOpDefinition, FunctionDefinition,
         TopLevelBlock)

InfixOpDefinitionAST(Symbol, lhs, rhs, Statement) ==
  [Symbol |-> Symbol, LHS |-> lhs, RHS |-> rhs, Statement |-> Statement]
FunctionDefinitionAST(Name, RetType, Params, Statement) ==
  [Name |-> Name, Type |-> RetType, ParameterList |-> Params,
   Statement |-> Statement]
Parameter(Name, Type, Loc) == [Name |-> Name, Type |-> Type, Loc |-> Loc]

parseInfixOpDefinition(L) ==
  LET Loc == getLoc(L)
      L1 == Lex(L)
      hasInt == getKind(L1) = "Integer"
      Precedence == IF hasInt THEN getTok(L1).IntVal ELSE DefaultPrecedence
      L2 == IF hasInt THEN Lex(L1) ELSE L1
  IN
  IF getKind(L2) # "Identifier"
    THEN Abort(Error(L2, "left hand operand name for infix operator expected"))
  ELSE IF getKind(Lex(L2)) # "InfixOp"
    THEN Abort(Error(Lex(L2), "symbol of infix operator expected"))
  ELSE IF getKind(Lex(Lex(L2))) # "Identifier"
    THEN Abort(Error(Lex(Lex(L2)),
                     "right hand operand name for infix operator expected"))
  ELSE
    LET lhs == getTok(L2).StrVal IN
    LET Symbol == getTok(Lex(L2)).StrVal IN
    LET rhs == getTok(Lex(Lex(L2))).StrVal IN
    LET L5 == Lex(Lex(Lex(L2))) IN
    With(IF getKind(L5) = "Equal" THEN parseExprStatement(Lex(L5))
                                      ELSE parseStatement(L5), LAMBDA s :
    IF s.err THEN Abort(s)
    ELSE Tables(FALSE,
                IF Symbol \in DOMAIN BinOpPrecedence
                  THEN Warning(s.L, "infix operator overrides another")
                  ELSE s.L,
                emplace(BinOpPrecedence, Symbol, ToInt8(Precedence)),
                emplace(InfixOpDefinition, Symbol,
                        InfixOpDefinitionAST(Symbol, lhs, rhs, s.res)),
                FunctionDefinition, TopLevelBlock))

\* the for (;;) loop of parseParameterList; the list built so far is the
\* caller's, so it is returned on failure too.
RECURSIVE ParameterLoop(_, _)
ParameterLoop(L, Params) ==
  With(parseTypeSpecifier(L), LAMBDA t :
  IF t.err THEN [err |-> TRUE, res |-> Params, L |-> t.L]
  ELSE
    LET isId == getKind(t.L) = "Identifier"
        Identifier == IF isId THEN getTok(t.L).StrVal ELSE ""
        L1 == IF isId THEN Lex(t.L)
                      ELSE Warning(t.L, "missing identifier after type")
        Ps == Append(Params, Parameter(Identifier, t.res, getLoc(t.L)))
    IN
    IF getKind(L1) # "Comma" THEN Ok(L1, Ps) ELSE ParameterLoop(Lex(L1), Ps))

parseParameterList(L) ==
  IF getKind(L) = "Kw_void" THEN Ok(Lex(L), << >>) ELSE ParameterLoop(L, << >>)

\* parseFunctionDefinition(RetType, Name): the result of parseParameterList
\* is not looked at.
parseFunctionDefinitionOf(RetType, Name, L) ==
  IF getKind(L) # "LParen"
    THEN Abort([L |-> [L EXCEPT !.diag =
                  Append(@, [sev |-> "Assertion",
                             msg |-> "parseFunctionDefinition: unknown token"])]])
  ELSE
    LET L1 == Lex(L) IN
    With(IF getKind(L1) # "RParen" THEN parseParameterList(L1)
                                       ELSE Ok(L1, << >>), LAMBDA p :
    IF getKind(p.L) # "RParen"
      THEN Abort(Error(p.L, "right parenthesis expected"))
    ELSE
      With(parseStatement(Lex(p.L)), LAMBDA s :
      IF s.err THEN Abort(s)
      ELSE Tables(FALSE,
                  IF Name \in DOMAIN FunctionDefinition
                    THEN Warning(s.L, "function overrides another one")
                    ELSE s.L,
                  BinOpPrecedence, InfixOpDefinition,
                  emplace(FunctionDefinition, Name,
                          FunctionDefinitionAST(Name, RetType, p.res, s.res)),
                  TopLevelBlock)))

\* parseFunctionDefinition()
parseFunctionDefinition(L) ==
  With(parseTypeSpecifier(L), LAMBDA t :
  IF t.err THEN Abort(t)
  ELSE IF getKind(t.L) # "Identifier"
    THEN Abort(Error(t.L, "expect identifier in function definition"))
  ELSE parseFunctionDefinitionOf(t.res, getTok(t.L).StrVal, Lex(t.L)))

\* TopLevelBlock.addStatement
addStatement(stmts, Statement) == Append(stmts, Statement)

\* a variant of the rewind that does not read the token again
RewindWithoutLex(L, Loc) == seekLoc(L, Loc)

\* Lexer.seekLoc(Loc); Lex();
Rewind(L, Loc) == Lex(seekLoc(L, Loc))

parseTopLevel(L) ==
  LET k == getKind(L) IN
  CASE k = "Kw_infix" -> parseInfixOpDefinition(L)
    [] k = "Kw_void" -> parseFunctionDefinition(L)
    [] k \in {"Kw_int", "Kw_bool", "Kw_double", "Kw_string"} ->
         With(parseTypeSpecifier(L), LAMBDA t :
         LET Loc == getLoc(t.L) IN
         IF t.err THEN Abort(t)
         ELSE IF getKind(t.L) # "Identifier"
           THEN Abort(Error(t.L, "expect identifier after type"))
         ELSE IF getKind(Lex(t.L)) = "LParen"
           THEN parseFunctionDefinitionOf(t.res, getTok(t.L).StrVal, Lex(t.L))
         ELSE
           With(parseDeclarationStatementOf(t.res, Rewind(Lex(t.L), Loc)), LAMBDA d :
           IF d.err THEN Abort(d)
           ELSE Tables(FALSE, d.L, BinOpPrecedence, InfixOpDefinition,
                       FunctionDefinition, addStatement(TopLevelBlock, d.res))))
    [] OTHER ->
         With(parseStatement(L), LAMBDA s :
         IF s.err THEN Abort(s)
         ELSE Tables(FALSE, s.L, BinOpPrecedence, InfixOpDefinition,
                     FunctionDefinition, addStatement(TopLevelBlock, s.res)))


(***************************************************************************)
(* Runtime values and environments.                                        *)
(* A value is a tagged record; a double is held by its numeric value (the  *)
(* model uses integral doubles only).  The interpreter state S threaded     *)
(* through execution is [Top, Envs, Fatal, Output, History, ub]: the        *)
(* top-level environment, the environments chained above it (innermost     *)
(* last), the message of the RuntimeError that ended the run ("" while it  *)
(* runs), the values printed, the calls made, and the outcome undefined    *)
(* behaviour takes in this run.                                            *)
(***************************************************************************)
BasicValue(t) ==
  [Type |-> t, BoolVal |-> FALSE, IntVal |-> 0, DoubleVal |-> 0, StrVal |-> ""]
VoidValue == BasicValue("VoidType")
IntValue(n) == [BasicValue("IntType") EXCEPT !.IntVal = n]
DoubleValue(n) == [BasicValue("DoubleType") EXCEPT !.DoubleVal = n]
BoolValue(b) == [BasicValue("BoolType") EXCEPT !.BoolVal = b]
StringValue(x) == [BasicValue("StringType") EXCEPT !.StrVal = x]

EmptyEnv == [n \in {} |-> VoidValue]
Bind(env, Name, Val) ==
  [n \in DOMAIN env \cup {Name} |-> IF n = Name THEN Val ELSE env[n]]

\* The chain an Env pointer stands for, outermost first.
Chain(S) == << S.Top >> \o S.Envs
SetChain(S, c) == [S EXCEPT !.Top = c[1], !.Envs = SubSeq(c, 2, Len(c))]
\* a variant that takes the outermost environment for the current one
OutermostEnv(S) == Chain(S)[1]
CurrentEnv(S) == Chain(S)[Len(Chain(S))]
Record(S, e) == [S EXCEPT !.History = Append(@, e)]

RuntimeError(S, Msg) == [S EXCEPT !.Fatal = Msg]
Running(S) == S.Fatal = ""

\* a variant that takes the outermost environment that holds Name
searchVariableOutermost(c, Name) ==
  LET holds == {i \in 1..Len(c) : Name \in DOMAIN c[i]} IN
  IF holds = {} THEN 0 ELSE CHOOSE i \in holds : \A j \in holds : i <= j

\* searchVariable: index in the chain of the innermost environment that
\* holds Name, 0 when none does.
searchVariable(c, Name) ==
  LET holds == {i \in 1..Len(c) : Name \in DOMAIN c[i]} IN
  IF holds = {} THEN 0 ELSE CHOOSE i \in holds : \A j \in holds : j <= i

NumVal(v) == IF v.Type = "IntType" THEN v.IntVal ELSE v.DoubleVal
IsNumeric(v) == v.Type \in {"IntType", "DoubleType"}

\* C++ integer division truncates towards zero.
TruncDiv(a, b) ==
  LET q == (IF a < 0 THEN -a ELSE a) \div (IF b < 0 THEN -b ELSE b) IN
  IF (a < 0) = (b < 0) THEN q ELSE -q

Arith(OpKind, a, b) ==
  CASE OpKind = "Add" -> a + b
    [] OpKind = "Minus" -> a - b
    [] OpKind = "Multiply" -> a * b
    [] OpKind = "Division" -> TruncDiv(a, b)

\* evaluateBinArith: int with int gives int, any other numeric pair double.
evaluateBinArith(S, OpKind, l, r) ==
  IF ~(IsNumeric(l) /\ IsNumeric(r))
    THEN [S |-> RuntimeError(S, "invalid operands to arithmetic operator"),
          val |-> VoidValue]
  ELSE IF OpKind = "Division" /\ NumVal(r) = 0
    THEN [S |-> RuntimeError(S, "division by zero"), val |-> VoidValue]
  ELSE IF l.Type = "IntType" /\ r.Type = "IntType"
    THEN [S |-> S, val |-> IntValue(Arith(OpKind, l.IntVal, r.IntVal))]
  ELSE [S |-> S, val |-> DoubleValue(Arith(OpKind, NumVal(l), NumVal(r)))]

\* evaluateBinLogic: bool operands only.
evaluateBinLogic(S, OpKind, l, r) ==
  IF l.Type = "BoolType" /\ r.Type = "BoolType"
    THEN [S |-> S,
          val |-> BoolValue(IF OpKind = "LogicalAnd" THEN l.BoolVal /\ r.BoolVal
                                                     ELSE l.BoolVal \/ r.BoolVal)]
    ELSE [S |-> RuntimeError(S, "invalid operands to logical operator"),
          val |-> VoidValue]

\* evaluateBinRelation: numbers with numbers.
evaluateBinRelation(S, OpKind, l, r) ==
  IF IsNumeric(l) /\ IsNumeric(r)
    THEN [S |-> S,
          val |-> BoolValue(CASE OpKind = "Less" -> NumVal(l) < NumVal(r)
                              [] OpKind = "LessEqual" -> NumVal(l) <= NumVal(r)
                              [] OpKind = "Equal" -> NumVal(l) = NumVal(r)
                              [] OpKind = "Greater" -> NumVal(l) > NumVal(r)
                              [] OpKind = "GreaterEqual" -> NumVal(l) >= NumVal(r))]
    ELSE [S |-> RuntimeError(S, "invalid operands to relational operator"),
          val |-> VoidValue]

\* Bit operations on the non-negative ints the model uses.
RECURSIVE BitOp(_, _, _)
BitOp(OpKind, a, b) ==
  IF a = 0 /\ b = 0 THEN 0
  ELSE LET x == a % 2
           y == b % 2
           bit == CASE OpKind = "BitwiseAnd" -> IF x = 1 /\ y = 1 THEN 1 ELSE 0
                    [] OpKind = "BitwiseOr" -> IF x = 1 \/ y = 1 THEN 1 ELSE 0
                    [] OpKind = "BitwiseXor" -> IF x # y THEN 1 ELSE 0
       IN bit + 2 * BitOp(OpKind, a \div 2, b \div 2)

RECURSIVE Pow2(_)
Pow2(n) == IF n = 0 THEN 1 ELSE 2 * Pow2(n - 1)

\* evaluateBinBitwise: int operands only.
evaluateBinBitwise(S, OpKind, l, r) ==
  IF l.Type = "IntType" /\ r.Type = "IntType" /\ l.IntVal >= 0 /\ r.IntVal >= 0
    THEN [S |-> S,
          val |-> IntValue(CASE OpKind = "LeftShift" -> l.IntVal * Pow2(r.IntVal)
                             [] OpKind = "RightShift" -> l.IntVal \div Pow2(r.IntVal)
                             [] OTHER -> BitOp(OpKind, l.IntVal, r.IntVal))]
    ELSE [S |-> RuntimeError(S, "invalid operands to bitwise operator"),
          val |-> VoidValue]

\* BasicValue::toString
toString(v) ==
  CASE v.Type = "StringType" -> v.StrVal
    [] v.Type = "IntType" -> ToString(v.IntVal)
    [] v.Type = "DoubleType" -> ToString(v.DoubleVal)
    [] v.Type = "BoolType" -> IF v.BoolVal THEN "true" ELSE "false"
    [] OTHER -> ""

\* a variant that concatenates only when the left operand is a string
evaluateBinaryCalcLeftString(S, OpKind, l, r) ==
  CASE OpKind = "Add" /\ l.Type = "StringType" ->
         [S |-> S, val |-> StringValue(toString(l) \o toString(r))]
    [] OpKind \in {"Add", "Minus", "Multiply", "Division"} ->
         evaluateBinArith(S, OpKind, l, r)
    [] OpKind \in {"BitwiseAnd", "BitwiseOr", "BitwiseXor", "LeftShift",
                   "RightShift"} -> evaluateBinBitwise(S, OpKind, l, r)
    [] OpKind \in {"LogicalAnd", "LogicalOr"} -> evaluateBinLogic(S, OpKind, l, r)
    [] OpKind \in {"Less", "LessEqual", "Equal", "Greater", "GreaterEqual"} ->
         evaluateBinRelation(S, OpKind, l, r)
    [] OpKind \in {"Assign", "Index"} ->
         [S |-> RuntimeError(S,
            "assignment/index should be handled in evaluateBinaryOpExpr"),
          val |-> VoidValue]
    [] OTHER ->
         [S |-> RuntimeError(S, "unknown binary operator kind"), val |-> VoidValue]

\* a variant that has a case for the modulo operator
evaluateBinaryCalcWithModulo(S, OpKind, l, r) ==
  CASE OpKind = "Add" /\ (l.Type = "StringType" \/ r.Type = "StringType") ->
         [S |-> S, val |-> StringValue(toString(l) \o toString(r))]
    [] OpKind \in {"Add", "Minus", "Multiply", "Division"} ->
         evaluateBinArith(S, OpKind, l, r)
    [] OpKind = "Modulo" ->
         IF l.Type = "IntType" /\ r.Type = "IntType" /\ l.IntVal >= 0 /\ r.IntVal > 0
           THEN [S |-> S, val |-> IntValue(l.IntVal % r.IntVal)]
           ELSE [S |-> RuntimeError(S, "invalid operands to arithmetic operator"),
                 val |-> VoidValue]
    [] OpKind \in {"BitwiseAnd", "BitwiseOr", "BitwiseXor", "LeftShift",
                   "RightShift"} -> evaluateBinBitwise(S, OpKind, l, r)
    [] OpKind \in {"LogicalAnd", "LogicalOr"} -> evaluateBinLogic(S, OpKind, l, r)
    [] OpKind \in {"Less", "LessEqual", "Equal", "Greater", "GreaterEqual"} ->
         evaluateBinRelation(S, OpKind, l, r)
    [] OpKind \in {"Assign", "Index"} ->
         [S |-> RuntimeError(S,
            "assignment/index should be handled in evaluateBinaryOpExpr"),
          val |-> VoidValue]
    [] OTHER ->
         [S |-> RuntimeError(S, "unknown binary operator kind"), val |-> VoidValue]

evaluateBinaryCalc(S, OpKind, l, r) ==
  CASE OpKind = "Add" /\ (l.Type = "StringType" \/ r.Type = "StringType") ->
         [S |-> S, val |-> StringValue(toString(l) \o toString(r))]
    [] OpKind \in {"Add", "Minus", "Multiply", "Division"} ->
         evaluateBinArith(S, OpKind, l, r)
    [] OpKind \in {"BitwiseAnd", "BitwiseOr", "BitwiseXor", "LeftShift",
                   "RightShift"} -> evaluateBinBitwise(S, OpKind, l, r)
    [] OpKind \in {"LogicalAnd", "LogicalOr"} -> evaluateBinLogic(S, OpKind, l, r)
    [] OpKind \in {"Less", "LessEqual", "Equal", "Greater", "GreaterEqual"} ->
         evaluateBinRelation(S, OpKind, l, r)
    [] OpKind \in {"Assign", "Index"} ->
         [S |-> RuntimeError(S,
            "assignment/index should be handled in evaluateBinaryOpExpr"),
          val |-> VoidValue]
    [] OTHER ->
         [S |-> RuntimeError(S, "unknown binary operator kind"), val |-> VoidValue]


(***************************************************************************)
(* Statements and expressions of the interpreter.  evaluate* return        *)
(* [S, val]; execute* return [S, Kind, ReturnValue].  A RuntimeError ends  *)
(* the process, so once S.Fatal is set nothing more is done.               *)
(***************************************************************************)
RECURSIVE executeStatement(_, _), executeBlock(_, _), BlockStatements(_, _, _),
          executeDeclarationList(_, _, _), executeDeclaration(_, _),
          evaluateExpression(_, _), evaluateArgumentList(_, _, _),
          evaluateFunctionCallExpr(_, _), evaluateBinaryOpExpr(_, _),
          evaluateAssignment(_, _, _), callUserFunction(_, _, _),
          BindParameters(_, _, _, _, _)

ExecutionResult(S, Kind, Val) == [S |-> S, Kind |-> Kind, ReturnValue |-> Val]
Normal(S) == ExecutionResult(S, "NormalStatementResult", VoidValue)
Value(S, v) == [S |-> S, val |-> v]

\* the native function table; print and println hand their arguments over.
NativeFunctions == {"print", "println", "system"}
callNativeFunction(S, Name, Args) ==
  Value(IF Name = "system" THEN S ELSE [S EXCEPT !.Output = @ \o Args], VoidValue)

evaluateIdentifierExpr(S, IdExpr) ==
  LET i == searchVariable(Chain(S), IdExpr.Name) IN
  IF i = 0
    THEN Value(Record(RuntimeError(S, "variable is undefined"),
                      [ev |-> "undefinedVariable", Name |-> IdExpr.Name,
                       Chain |-> Chain(S)]),
               VoidValue)
    ELSE Value(Record(S, [ev |-> "evaluateIdentifierExpr", Name |-> IdExpr.Name,
                          Chain |-> Chain(S), Value |-> Chain(S)[i][IdExpr.Name]]),
               Chain(S)[i][IdExpr.Name])

evaluateArgumentList(S, Args, Res) ==
  IF Args = << >> THEN Value(S, Res)
  ELSE With(evaluateExpression(S, Head(Args)), LAMBDA a :
       IF ~Running(a.S) THEN Value(a.S, Res)
       ELSE evaluateArgumentList(a.S, Tail(Args), Append(Res, a.val)))

evaluateFunctionCallExpr(S, FuncCall) ==
  IF FuncCall.Callee \in DOMAIN FunctionDefinition
    THEN With(evaluateArgumentList(S, FuncCall.Arguments, << >>), LAMBDA a :
         IF ~Running(a.S) THEN Value(a.S, VoidValue)
         ELSE callUserFunction(a.S, FunctionDefinition[FuncCall.Callee], a.val))
  ELSE IF FuncCall.Callee \in NativeFunctions
    THEN With(evaluateArgumentList(S, FuncCall.Arguments, << >>), LAMBDA a :
         IF ~Running(a.S) THEN Value(a.S, VoidValue)
         ELSE callNativeFunction(a.S, FuncCall.Callee, a.val))
  ELSE Value(RuntimeError(S, "function is undefined"), VoidValue)

\* a variant of the parameter-binding loop that accepts an int argument
\* for a double parameter
BindParametersWidening(S, Function, Params, Args, FuncEnv) ==
  IF Args = << >> THEN [S |-> S, env |-> FuncEnv]
  ELSE IF Head(Params).Type # Head(Args).Type
          /\ ~(Head(Params).Type = "DoubleType" /\ Head(Args).Type = "IntType")
    THEN [S |-> RuntimeError(S, "parameter and argument differ in type"),
          env |-> FuncEnv]
  ELSE BindParameters(S, Function, Tail(Params), Tail(Args),
                      Bind(FuncEnv, Head(Params).Name, Head(Args)))

\* the parameter-binding loop of callUserFunction
BindParameters(S, Function, Params, Args, FuncEnv) ==
  IF Args = << >> THEN [S |-> S, env |-> FuncEnv]
  ELSE IF Head(Params).Type # Head(Args).Type
    THEN [S |-> RuntimeError(S, "parameter and argument differ in type"),
          env |-> FuncEnv]
  ELSE BindParameters(S, Function, Tail(Params), Tail(Args),
                      Bind(FuncEnv, Head(Params).Name, Head(Args)))

\* a variant that chains the callee's environment to the caller's
FuncEnvOnCaller(S, VarMap) == Append(S.Envs, VarMap)

\* VariableEnv FuncEnv(&TopLevelEnv): the environments above the top-level
\* one while the body runs
FuncEnvOnTopLevel(S, VarMap) == << VarMap >>

\* a variant that accepts an int returned from a double function and
\* anything from a function left without return
ReturnTypeDiffersLoosely(Function, Result) ==
  /\ Result.ReturnValue.Type # Function.Type
  /\ ~(Function.Type = "DoubleType" /\ Result.ReturnValue.Type = "IntType")
  /\ Result.Kind = "ReturnStatementResult"

\* Result.ReturnValue.Type != Function.getType()
ReturnTypeDiffers(Function, Result) == Result.ReturnValue.Type # Function.Type

callUserFunction(S, Function, Args) ==
  LET call == [ev |-> "callUserFunction", Function |-> Function.Name,
               ParameterList |-> Function.ParameterList, Args |-> Args,
               Caller |-> Chain(S)]
      return == [ev |-> "callReturn", Function |-> Function.Name,
                 Type |-> Function.Type]
  IN
  IF Len(Args) # Len(Function.ParameterList)
    THEN Value(Record(RuntimeError(S, "wrong number of arguments"),
                      call @@ [Fatal |-> TRUE, FuncEnv |-> EmptyEnv,
                               Body |-> << >>]),
               VoidValue)
  ELSE
    With(BindParameters(S, Function, Function.ParameterList, Args, EmptyEnv), LAMBDA b :
    IF ~Running(b.S)
      THEN Value(Record(b.S, call @@ [Fatal |-> TRUE, FuncEnv |-> b.env,
                                      Body |-> << >>]),
                 VoidValue)
    ELSE
      \* the body runs in the callee's chain; afterwards that environment
      \* is gone and the caller's chain is back
      LET S0 == [b.S EXCEPT !.Envs = FuncEnvOnTopLevel(b.S, b.env)]
          S1 == Record(S0, call @@ [Fatal |-> FALSE, FuncEnv |-> b.env,
                                    Body |-> Chain(S0)])
      IN
      With(executeStatement(S1, Function.Statement), LAMBDA Result :
      LET S2 == [Result.S EXCEPT !.Envs = S.Envs]
          ret == return @@ [Kind |-> Result.Kind,
                            ReturnValue |-> Result.ReturnValue]
      IN
      IF ~Running(S2)
        THEN Value(Record(S2, ret @@ [BodyDied |-> TRUE, Fatal |-> TRUE,
                                      Value |-> VoidValue]),
                   VoidValue)
      ELSE IF ReturnTypeDiffers(Function, Result)
        THEN Value(Record(RuntimeError(S2, "function returns a value of another type"),
                          ret @@ [BodyDied |-> FALSE, Fatal |-> TRUE,
                                  Value |-> VoidValue]),
                   VoidValue)
      ELSE Value(Record(S2, ret @@ [BodyDied |-> FALSE, Fatal |-> FALSE,
                                    Value |-> Result.ReturnValue]),
                 Result.ReturnValue)))


evaluateAssignment(S, Name, Expr) ==
  LET i == searchVariable(Chain(S), Name)
      call == [ev |-> "evaluateAssignment", Name |-> Name]
  IN
  IF i = 0
    THEN Value(Record(RuntimeError(S, "variable is undefined"),
                      call @@ [Undefined |-> TRUE, Fatal |-> TRUE,
                               RHS |-> VoidValue, Before |-> Chain(S),
                               After |-> Chain(S)]),
               VoidValue)
  ELSE
    With(evaluateExpression(S, Expr), LAMBDA r :
    IF ~Running(r.S) THEN Value(r.S, VoidValue)
    ELSE
      LET c == Chain(r.S)
          lhs == c[i][Name]
          rhs == r.val
          \* the assignment ended with the chain d
          Done(T, d) ==
            Record(SetChain(T, d),
                   call @@ [Undefined |-> FALSE, Fatal |-> ~Running(T),
                            RHS |-> rhs, Before |-> c, After |-> d])
      IN
      IF lhs.Type # rhs.Type
        THEN IF lhs.Type = "DoubleType" /\ rhs.Type = "IntType"
               THEN LET v == [lhs EXCEPT !.DoubleVal = rhs.IntVal] IN
                    Value(Done(r.S, [c EXCEPT ![i][Name] = v]), v)
               ELSE Value(Done(RuntimeError(r.S, "assignment with another type"), c),
                          VoidValue)
        ELSE Value(Done(r.S, [c EXCEPT ![i][Name] = rhs]), rhs))

\* what evaluateBinaryOpExpr did with the operands of an operator other
\* than = and []: the value of the left one, whether the right one was
\* evaluated, and whether the operator was applied
Operands(S, OpKind, l, Right, Applied) ==
  Record(S, [ev |-> "operands", OpKind |-> OpKind, LHS |-> l, Right |-> Right,
             Applied |-> Applied, Died |-> ~Running(S)])

\* the left operand of && or || decides the result
Decides(OpKind, l) ==
  /\ OpKind \in {"LogicalAnd", "LogicalOr"}
  /\ l.Type = "BoolType"
  /\ l.BoolVal = (OpKind = "LogicalOr")

\* a variant in which && and || leave the right operand alone when the
\* left one decides
evaluateBinaryOpExprShortCircuit(S, Expr) ==
  IF Expr.OpKind = "Assign"
    THEN IF Expr.LHS.kind = "IdentifierExpression"
           THEN evaluateAssignment(S, Expr.LHS.Name, Expr.RHS)
         ELSE With(Record(S, [ev |-> "castToIdentifier", Kind |-> Expr.LHS.kind]),
                   LAMBDA T :
              IF T.ub = "!crash"
                THEN Value(RuntimeError(T, "crash (undefined behaviour)"), VoidValue)
                ELSE evaluateAssignment(T, T.ub, Expr.RHS))
  ELSE IF Expr.OpKind = "Index"
    THEN Value(RuntimeError(S, "array unimplemented!"), VoidValue)
  ELSE
    With(evaluateExpression(S, Expr.LHS), LAMBDA l :
    IF ~Running(l.S)
      THEN Value(Operands(l.S, Expr.OpKind, l.val, FALSE, FALSE), VoidValue)
    ELSE With(IF Decides(Expr.OpKind, l.val)
                THEN Value(l.S, l.val)
                ELSE evaluateExpression(l.S, Expr.RHS), LAMBDA r :
         IF ~Running(r.S)
           THEN Value(Operands(r.S, Expr.OpKind, l.val, TRUE, FALSE), VoidValue)
         ELSE With(evaluateBinaryCalc(r.S, Expr.OpKind, l.val, r.val), LAMBDA v :
              Value(Record(Operands(v.S, Expr.OpKind, l.val,
                                    ~Decides(Expr.OpKind, l.val), TRUE),
                           [ev |-> "evaluateBinaryCalc",
                            OpKind |-> Expr.OpKind, LHS |-> l.val,
                            RHS |-> r.val, Value |-> v.val,
                            Fatal |-> ~Running(v.S)]),
                    v.val))))

\* Reading the name of an assignment's left operand casts the node to an
\* identifier without looking at its kind: undefined for any other node.
evaluateBinaryOpExpr(S, Expr) ==
  IF Expr.OpKind = "Assign"
    THEN IF Expr.LHS.kind = "IdentifierExpression"
           THEN evaluateAssignment(S, Expr.LHS.Name, Expr.RHS)
         ELSE With(Record(S, [ev |-> "castToIdentifier", Kind |-> Expr.LHS.kind]),
                   LAMBDA T :
              IF T.ub = "!crash"
                THEN Value(RuntimeError(T, "crash (undefined behaviour)"), VoidValue)
                ELSE evaluateAssignment(T, T.ub, Expr.RHS))
  ELSE IF Expr.OpKind = "Index"
    THEN Value(RuntimeError(S, "array unimplemented!"), VoidValue)
  ELSE
    With(evaluateExpression(S, Expr.LHS), LAMBDA l :
    IF ~Running(l.S)
      THEN Value(Operands(l.S, Expr.OpKind, l.val, FALSE, FALSE), VoidValue)
    ELSE With(evaluateExpression(l.S, Expr.RHS), LAMBDA r :
         IF ~Running(r.S)
           THEN Value(Operands(r.S, Expr.OpKind, l.val, TRUE, FALSE), VoidValue)
         ELSE With(evaluateBinaryCalc(r.S, Expr.OpKind, l.val, r.val), LAMBDA v :
              Value(Record(Operands(v.S, Expr.OpKind, l.val, TRUE, TRUE),
                           [ev |-> "evaluateBinaryCalc",
                            OpKind |-> Expr.OpKind, LHS |-> l.val,
                            RHS |-> r.val, Value |-> v.val,
                            Fatal |-> ~Running(v.S)]),
                    v.val))))

evaluateExpression(S, Expr) ==
  CASE Expr.kind = "IntExpression" -> Value(S, IntValue(Expr.IntVal))
    [] Expr.kind = "DoubleExpression" -> Value(S, DoubleValue(Expr.DoubleVal))
    [] Expr.kind = "BoolExpression" -> Value(S, BoolValue(Expr.BoolVal))
    [] Expr.kind = "StringExpression" -> Value(S, StringValue(Expr.StrVal))
    [] Expr.kind = "IdentifierExpression" -> evaluateIdentifierExpr(S, Expr)
    [] Expr.kind = "FunctionCallExpression" -> evaluateFunctionCallExpr(S, Expr)
    [] Expr.kind = "BinaryOperatorExpression" -> evaluateBinaryOpExpr(S, Expr)
    [] Expr.kind = "UnaryOperatorExpression" ->
         Value(RuntimeError(S, "unimplemented"), VoidValue)
    [] OTHER -> Value(RuntimeError(S, "unknown expression kind"), VoidValue)

\* a variant that converts between int and double in both directions
WidensBothWays(Type, Val) ==
  IsNumeric(Val) /\ Type \in {"IntType", "DoubleType"}

\* Decl->getType() == cvm::DoubleType && Val.isInt()
WidensTo(Type, Val) == Type = "DoubleType" /\ Val.Type = "IntType"

executeDeclaration(S, Decl) ==
  LET Name == Decl.Name
      Env == CurrentEnv(S)
      call == [ev |-> "executeDeclaration", Name |-> Name, Type |-> Decl.Type,
               Before |-> Chain(S), Array |-> Decl.CountExprList # << >>,
               Initializer |-> Decl.Initializer]
      \* the run ended in this declaration
      Died(T, evaluated, init) ==
        Normal(Record(T, call @@ [Fatal |-> TRUE, Evaluated |-> evaluated,
                                  Init |-> init, AtBind |-> Chain(T),
                                  After |-> Chain(T)]))
      \* Env->VarMap.emplace(Name, v)
      Done(T, evaluated, init, v) ==
        LET c == Chain(T)
            T1 == SetChain(T, [c EXCEPT ![Len(c)] = Bind(@, Name, v)])
        IN Normal(Record(T1, call @@ [Fatal |-> FALSE, Evaluated |-> evaluated,
                                      Init |-> init, AtBind |-> c,
                                      After |-> Chain(T1)]))
  IN
  IF Name \in DOMAIN Env
    THEN Died(RuntimeError(S, "variable is already defined in current scope"),
              FALSE, VoidValue)
  ELSE IF Decl.CountExprList # << >>
    THEN Died(RuntimeError(S, "unimplemented!"), FALSE, VoidValue)
  ELSE IF Decl.Initializer # Null
    THEN With(evaluateExpression(S, Decl.Initializer), LAMBDA i :
         LET Val == i.val IN
         IF ~Running(i.S) THEN Died(i.S, FALSE, VoidValue)
         ELSE IF Val.Type # Decl.Type
           THEN IF WidensTo(Decl.Type, Val)
                  THEN Done(i.S, TRUE, Val,
                            [Val EXCEPT !.Type = "DoubleType",
                                        !.DoubleVal = Val.IntVal])
                  ELSE Died(RuntimeError(i.S, "declared and initialized types differ"),
                            TRUE, Val)
           ELSE Done(i.S, TRUE, Val, Val))
  ELSE Done(S, FALSE, VoidValue, BasicValue(Decl.Type))

executeDeclarationList(S, Decls, k) ==
  IF k > Len(Decls) THEN Normal(S)
  ELSE With(executeDeclaration(S, Decls[k]), LAMBDA d :
       IF ~Running(d.S) THEN d ELSE executeDeclarationList(d.S, Decls, k + 1))

executeExprStatement(S, Stmt) == Normal(evaluateExpression(S, Stmt.Expression).S)

executeReturnStatement(S, Stmt) ==
  IF Stmt.ReturnValue # Null
    THEN With(evaluateExpression(S, Stmt.ReturnValue), LAMBDA v :
         ExecutionResult(v.S, "ReturnStatementResult", v.val))
    ELSE ExecutionResult(S, "ReturnStatementResult", VoidValue)

\* what executing one statement of a block gave
Outcome(S, Stmt, r) ==
  [Stmt |-> Stmt, Envs |-> Len(Chain(S)), Kind |-> r.Kind,
   ReturnValue |-> r.ReturnValue, Died |-> ~Running(r.S)]

\* a variant of the statement loop that goes on after a statement that did
\* not end Normal
BlockStatementsGoOn(S, Stmts, k) ==
  IF k > Len(Stmts) THEN Normal(S) @@ [Outcomes |-> << >>]
  ELSE With(executeStatement(S, Stmts[k]), LAMBDA r :
       IF ~Running(r.S) \/ k = Len(Stmts)
         THEN r @@ [Outcomes |-> << Outcome(S, Stmts[k], r) >>]
         ELSE With(BlockStatements(r.S, Stmts, k + 1), LAMBDA t :
              [t EXCEPT !.Outcomes = << Outcome(S, Stmts[k], r) >> \o @]))

\* the statement loop of executeBlock; Outcomes lists what each executed
\* statement gave
BlockStatements(S, Stmts, k) ==
  IF k > Len(Stmts) THEN Normal(S) @@ [Outcomes |-> << >>]
  ELSE With(executeStatement(S, Stmts[k]), LAMBDA r :
       IF ~Running(r.S) \/ r.Kind # "NormalStatementResult" \/ k = Len(Stmts)
         THEN r @@ [Outcomes |-> << Outcome(S, Stmts[k], r) >>]
         ELSE With(BlockStatements(r.S, Stmts, k + 1), LAMBDA t :
              [t EXCEPT !.Outcomes = << Outcome(S, Stmts[k], r) >> \o @]))

executeBlock(S, Block) ==
  \* the block runs in a fresh CurrentEnv, destroyed on return
  With([S EXCEPT !.Envs = Append(@, EmptyEnv)], LAMBDA S0 :
  With(BlockStatements(S0, Block.StatementList, 1), LAMBDA r :
  LET S1 == [r.S EXCEPT !.Envs = SubSeq(@, 1, Len(@) - 1)] IN
  ExecutionResult(Record(S1, [ev |-> "executeBlock", Before |-> Chain(S),
                              After |-> Chain(S1), Kind |-> r.Kind,
                              Fatal |-> ~Running(S1),
                              ReturnValue |-> r.ReturnValue,
                              Inner |-> Chain(S0),
                              Statements |-> Block.StatementList,
                              Outcomes |-> r.Outcomes]),
                  r.Kind, r.ReturnValue)))

\* what executeStatement was given and what it gave: the kind of the
\* statement and of the outcome, the chain and the output before and after,
\* and the number of events recorded in between
Executed(S, Stmt, r) ==
  [r EXCEPT !.S = Record(@, [ev |-> "executeStatement",
                             Stmt |-> IF Stmt = Null THEN "null" ELSE Stmt.kind,
                             Kind |-> r.Kind, Died |-> ~Running(r.S),
                             Before |-> Chain(S), After |-> Chain(r.S),
                             Printed |-> Len(r.S.Output) - Len(S.Output),
                             Inner |-> Len(r.S.History) - Len(S.History)])]

\* a variant of the if case that evaluates the condition and executes the
\* branch it selects
IfStatementExecuted(S, Stmt) ==
  With(evaluateExpression(S, Stmt.Condition), LAMBDA c :
  IF ~Running(c.S) THEN Normal(c.S)
  ELSE IF c.val.Type = "BoolType" /\ c.val.BoolVal
    THEN executeStatement(c.S, Stmt.StatementThen)
  ELSE IF Stmt.StatementElse # Null
    THEN executeStatement(c.S, Stmt.StatementElse)
  ELSE Normal(c.S))

\* case StatementAST::IfStatement: the call of executeIfStatement is
\* commented out, Res stays as it was constructed
IfStatementCase(S, Stmt) == Normal(S)

\* a variant in which break and continue leave the statement with an
\* outcome of their own
executeStatementWithBreak(S, Stmt) ==
  With(CASE Stmt = Null ->
              IF S.ub = "!crash"
                THEN Normal(RuntimeError(S, "crash (undefined behaviour)"))
                ELSE Normal(S)
         [] Stmt.kind = "ExprStatement" -> executeExprStatement(S, Stmt)
         [] Stmt.kind = "BlockStatement" -> executeBlock(S, Stmt)
         [] Stmt.kind = "IfStatement" -> IfStatementCase(S, Stmt)
         [] Stmt.kind = "ReturnStatement" -> executeReturnStatement(S, Stmt)
         [] Stmt.kind = "BreakStatement" ->
              ExecutionResult(S, "BreakStatementResult", VoidValue)
         [] Stmt.kind = "ContinueStatement" ->
              ExecutionResult(S, "ContinueStatementResult", VoidValue)
         [] Stmt.kind \in {"WhileStatement", "ForStatement", "DeclarationStatement"} ->
              Normal(RuntimeError(S, "single declaration should not be used by user"))
         [] Stmt.kind = "DeclarationListStatement" ->
              executeDeclarationList(S, Stmt.DeclarationList, 1)
         [] OTHER -> Normal(RuntimeError(S, "unknown statement kind")),
       LAMBDA r : Executed(S, Stmt, r))

executeStatement(S, Stmt) ==
  With(CASE Stmt = Null ->
              \* a null statement pointer is dereferenced: undefined
              IF S.ub = "!crash"
                THEN Normal(RuntimeError(S, "crash (undefined behaviour)"))
                ELSE Normal(S)
         [] Stmt.kind = "ExprStatement" -> executeExprStatement(S, Stmt)
         [] Stmt.kind = "BlockStatement" -> executeBlock(S, Stmt)
         [] Stmt.kind = "IfStatement" -> IfStatementCase(S, Stmt)
         [] Stmt.kind = "ReturnStatement" -> executeReturnStatement(S, Stmt)
         [] Stmt.kind \in {"WhileStatement", "ForStatement", "ContinueStatement",
                           "BreakStatement", "DeclarationStatement"} ->
              Normal(RuntimeError(S, "single declaration should not be used by user"))
         [] Stmt.kind = "DeclarationListStatement" ->
              executeDeclarationList(S, Stmt.DeclarationList, 1)
         [] OTHER -> Normal(RuntimeError(S, "unknown statement kind")),
       LAMBDA r : Executed(S, Stmt, r))


(***************************************************************************)
(* Sources.  The run starts from one of these token streams.               *)
(***************************************************************************)
MaxOps == 3        \* operators in a generated expression
MaxDepth == 2      \* nesting of blocks around an inner declaration
MaxArgs == 2       \* arguments in a generated call
MaxStmts == 2      \* top-level statements in a generated control-flow source

Semi == << Tk("Semicolon") >>
Names == << "a", "b", "c", "d", "e", "f" >>
Types == {"BoolType", "IntType", "DoubleType", "StringType"}

TypeKw(T) ==
  Tk(CASE T = "BoolType" -> "Kw_bool"
       [] T = "IntType" -> "Kw_int"
       [] T = "DoubleType" -> "Kw_double"
       [] T = "StringType" -> "Kw_string"
       [] T = "VoidType" -> "Kw_void")

\* a literal of type T carrying the number n
Lit(T, n) ==
  CASE T = "BoolType" -> BoolTok(n % 2 = 1)
    [] T = "IntType" -> IntTok(n)
    [] T = "DoubleType" -> DblTok(n)
    [] T = "StringType" -> StrTok(ToString(n))

\* print ( e ) ;
PrintCall(e) == << Id("print"), Tk("LParen") >> \o e \o << Tk("RParen"), Tk("Semicolon") >>

RECURSIVE Repeat(_, _)
Repeat(t, n) == IF n = 0 THEN << >> ELSE << t >> \o Repeat(t, n - 1)

\* infix P l SYM r = l op r ;
InfixDecl(P, l, s, r, op) ==
  << Tk("Kw_infix"), IntTok(P), Id(l), Sym(s), Id(r), Tk("Equal"),
     Id(l), op, Id(r), Tk("Semicolon") >>

\* the precedences written in generated infix declarations
PrecLits == {0, 5, 10, 11, 127, 128}

OpToks == { Tk("Plus"), Tk("Star"), Tk("PipePipe"), Tk("Less"), Tk("Equal"),
            Sym("<>") }

\* p1 o1 p2 o2 ... pn+1 ; with the i-th primary the identifier Names[i]
ExprOf(ops) ==
  [i \in 1..(2 * Len(ops) + 1) |->
     IF i % 2 = 1 THEN Id(Names[(i + 1) \div 2]) ELSE ops[i \div 2]] \o Semi

OpSeqs == UNION {[1..n -> OpToks] : n \in 1..MaxOps}
UsesSym(ops) == \E i \in 1..Len(ops) : ops[i].Kind = "InfixOp"

\* expressions over the operators, with and without a declaration of <> first
ExprPrograms ==
  {ExprOf(ops) : ops \in OpSeqs}
  \cup {InfixDecl(P, "a", "<>", "b", Tk("Minus")) \o ExprOf(ops) :
          P \in PrecLits, ops \in {o \in OpSeqs : UsesSym(o)}}
  \cup {<< IntTok(1), Tk("Plus"), IntTok(2), Tk("Star"), IntTok(3) >> \o Semi,
        << IntTok(2), Tk("Star"), IntTok(3), Tk("Plus"), IntTok(1) >> \o Semi,
        << IntTok(1), Tk("Plus"), IntTok(2), Tk("Star"), IntTok(3), Tk("Plus"),
           IntTok(4) >> \o Semi,
        << Id("a"), Tk("Equal"), Id("b"), Tk("Equal"), IntTok(3) >> \o Semi}

\* declarations of <>: used in its own body, given twice, of precedence 256
InfixPrograms ==
  {InfixDecl(P, "a", "<>", "b", Sym("<>")) \o ExprOf(<< Sym("<>") >>) :
     P \in {5}}
  \cup {InfixDecl(256, "a", "<>", "b", Tk("Minus")) \o ExprOf(<< Sym("<>") >>)}
  \cup {InfixDecl(P1, "a", "<>", "b", Tk("Minus"))
          \o InfixDecl(P2, "x", "<>", "y", Tk("Plus"))
          \o ExprOf(<< Tk("Plus"), Sym("<>"), Tk("Plus") >>) :
        P1 \in {5, 11}, P2 \in {5, 11}}

\* infix 5 a <> b = a - b ; print ( x <> y <> z ) ;
ApplyPrograms ==
  {InfixDecl(5, "a", "<>", "b", Tk("Minus"))
     \o PrintCall(<< IntTok(x), Sym("<>"), IntTok(y), Sym("<>"), IntTok(z) >>) :
   x \in {10, 7}, y \in {3}, z \in {1, 2}}

\* T f ( ) return lit ; twice, then print ( f ( ) ) ;
FuncDef(T, name, params, body) ==
  << TypeKw(T), Id(name), Tk("LParen") >> \o params \o << Tk("RParen") >> \o body
Return(e) == << Tk("Kw_return") >> \o e \o Semi
CallOf(name, args) == << Id(name), Tk("LParen") >> \o args \o << Tk("RParen") >>

FuncPrograms ==
  {FuncDef(T1, "f", << >>, Return(<< Lit(T1, 1) >>))
     \o FuncDef(T2, "f", << >>, Return(<< Lit(T2, 2) >>))
     \o PrintCall(CallOf("f", << >>)) :
   T1 \in {"IntType", "DoubleType"}, T2 \in {"IntType", "DoubleType"}}

\* T x [= lit of U] ; print ( x ) ;   at top level and inside a block
DeclOf(T, name, init) ==
  << TypeKw(T), Id(name) >>
    \o (IF init = << >> THEN << >> ELSE << Tk("Equal") >> \o init) \o Semi

DeclPrograms ==
  LET bodies == {DeclOf(T, "x", << Lit(U, 3) >>) \o PrintCall(<< Id("x") >>) :
                   T \in Types, U \in Types}
                \cup {DeclOf(T, "x", << >>) \o PrintCall(<< Id("x") >>) : T \in Types}
                \cup {DeclOf(U, "y", << Lit(U, 7) >>) \o DeclOf(T, "x", << Id("y") >>)
                        \o PrintCall(<< Id("x") >>) :
                      T \in {"IntType", "DoubleType"}, U \in {"IntType", "DoubleType"}}
  IN bodies \cup {<< Tk("LCurly") >> \o b \o << Tk("RCurly") >> : b \in bodies}

\* T1 x = 1 ; { ... { T2 x = 2 ; print ( x ) ; } ... } print ( x ) ;
\* with the inner declaration d blocks deep (d = 0: in the same scope)
ScopePrograms ==
  LET inner(T2, d) ==
        Repeat(Tk("LCurly"), d)
          \o DeclOf(T2, "x", << Lit(T2, 2) >>) \o PrintCall(<< Id("x") >>)
          \o Repeat(Tk("RCurly"), d)
      TT == {"IntType", "StringType"}
  IN
  {DeclOf(T1, "x", << Lit(T1, 1) >>) \o inner(T2, d) \o PrintCall(<< Id("x") >>) :
     T1 \in TT, T2 \in TT, d \in 0..MaxDepth}
  \cup {<< Tk("LCurly") >> \o DeclOf(T1, "x", << Lit(T1, 1) >>) \o inner(T2, d)
          \o PrintCall(<< Id("x") >>) \o << Tk("RCurly") >> :
        T1 \in TT, T2 \in TT, d \in 0..MaxDepth}
  \cup {DeclOf("IntType", "x", << Lit("IntType", 1) >>)
          \o << Tk("LCurly") >>
          \o DeclOf("IntType", "x", << Id("x"), Tk("Equal"), IntTok(5) >>)
          \o PrintCall(<< Id("x") >>) \o << Tk("RCurly") >> \o PrintCall(<< Id("x") >>),
        FuncDef("IntType", "g", << TypeKw("IntType"), Id("x") >>,
                DeclOf("IntType", "x", << IntTok(2) >>))
          \o PrintCall(CallOf("g", << IntTok(1) >>)),
        FuncDef("IntType", "g", << TypeKw("IntType"), Id("x") >>,
                << Tk("LCurly") >> \o DeclOf("IntType", "x", << IntTok(2) >>)
                  \o Return(<< Id("x") >>) \o << Tk("RCurly") >>)
          \o PrintCall(CallOf("g", << IntTok(1) >>))}

\* int f ( T1 p , T2 q ) { print ( p ) ; print ( q ) ; return 0 ; }  f ( args ) ;
ParamTypes == {"IntType", "DoubleType"}
ArgTypes == {"IntType", "DoubleType", "StringType"}
ParamNames == {<< "p", "q" >>, << "p", "p" >>}

RECURSIVE Flatten(_)
Flatten(ss) == IF ss = << >> THEN << >> ELSE Head(ss) \o Flatten(Tail(ss))

RECURSIVE CommaList(_)
CommaList(items) ==
  IF items = << >> THEN << >>
  ELSE IF Len(items) = 1 THEN items[1]
  ELSE items[1] \o << Tk("Comma") >> \o CommaList(Tail(items))

CallPrograms ==
  LET ParamLists == UNION {[1..n -> ParamTypes] : n \in 0..2}
      ArgLists == UNION {[1..n -> ArgTypes] : n \in 0..MaxArgs}
      Params(ts, ns) == CommaList([i \in 1..Len(ts) |-> << TypeKw(ts[i]), Id(ns[i]) >>])
      Args(us) == CommaList([i \in 1..Len(us) |-> << Lit(us[i], 10 + i) >>])
      Body(ts, ns) ==
        << Tk("LCurly") >>
          \o Flatten([i \in 1..Len(ts) |-> PrintCall(<< Id(ns[i]) >>)])
          \o Return(<< IntTok(0) >>) \o << Tk("RCurly") >>
  IN
  {FuncDef("IntType", "f", Params(ts, ns), Body(ts, ns))
     \o CallOf("f", Args(us)) \o Semi :
   ts \in ParamLists, us \in ArgLists, ns \in {<< "p", "q" >>}}
  \cup
  {FuncDef("IntType", "f", Params(ts, ns), Body(ts, ns))
     \o CallOf("f", Args(us)) \o Semi :
   ts \in [1..2 -> ParamTypes], us \in ArgLists, ns \in {<< "p", "p" >>}}

\* sequences of top-level statements, some of which return, break or continue
FlowStmts ==
  { PrintCall(<< IntTok(1) >>),
    Return(<< >>),
    Return(<< IntTok(5) >>),
    << Tk("Kw_break") >> \o Semi,
    << Tk("Kw_continue") >> \o Semi,
    << Tk("LCurly") >> \o PrintCall(<< IntTok(2) >>) \o << Tk("RCurly") >>,
    << Tk("LCurly") >> \o Return(<< >>) \o PrintCall(<< IntTok(3) >>) \o << Tk("RCurly") >>,
    << Tk("LCurly"), Tk("LCurly") >> \o Return(<< IntTok(7) >>)
      \o << Tk("RCurly"), Tk("RCurly") >>,
    << Tk("Kw_if"), Tk("LParen"), BoolTok(TRUE), Tk("RParen") >> \o Return(<< >>) }

FlowPrograms ==
  {Flatten(ss) : ss \in UNION {[1..n -> FlowStmts] : n \in 1..MaxStmts}}

\* print ( lit op lit ) ; over every pair of types, and sums of three
CalcPrograms ==
  {PrintCall(<< Lit(T1, 1), op, Lit(T2, 2) >>) :
     T1 \in Types, T2 \in Types, op \in {Tk("Plus"), Tk("Minus")}}
  \cup {PrintCall(<< StrTok("a"), Tk("Plus"), IntTok(1) >>),
        PrintCall(<< StrTok("a"), Tk("Plus"), IntTok(1), Tk("Plus"), IntTok(2) >>),
        PrintCall(<< IntTok(1), Tk("Plus"), IntTok(2), Tk("Plus"), StrTok("a") >>)}

\* sources with a hard parse error, alone and after a good statement
ErrConstructs ==
  { FuncDef("IntType", "f", << TypeKw("IntType"), Id("a"), Tk("Comma") >>,
            Return(<< Id("a") >>)) \o PrintCall(CallOf("f", << IntTok(1) >>)),
    FuncDef("IntType", "f", << TypeKw("IntType"), Id("a"), Tk("Comma"), IntTok(5) >>,
            Return(<< Id("a") >>)) \o PrintCall(CallOf("f", << IntTok(1) >>)),
    FuncDef("IntType", "f", << Tk("Comma") >>, Return(<< IntTok(1) >>)),
    << TypeKw("IntType"), Id("f"), Tk("LParen"), TypeKw("IntType"), Id("a") >>
      \o Return(<< Id("a") >>),
    << TypeKw("VoidType"), Tk("LParen"), Tk("RParen") >> \o Return(<< >>),
    << Tk("LCurly") >> \o PrintCall(<< IntTok(1) >>),
    << IntTok(1), Tk("Plus") >> \o Semi \o PrintCall(<< IntTok(2) >>),
    << TypeKw("IntType") >> \o Semi,
    << TypeKw("IntType"), Id("x"), Tk("Equal") >> \o Semi \o PrintCall(<< IntTok(2) >>),
    << Tk("Kw_infix"), IntTok(5), Id("a"), Id("b") >> \o Semi,
    << Tk("Kw_infix"), IntTok(5), Id("a"), Sym("<>"), Id("b"), Tk("Equal"),
       Id("a"), Tk("Minus") >> \o Semi \o PrintCall(<< IntTok(2) >>),
    << Tk("Kw_return"), IntTok(1) >> \o PrintCall(<< IntTok(2) >>),
    << Tk("LCurly"), TypeKw("IntType"), Id("x"), Tk("Comma") >> \o Semi
      \o << Tk("RCurly") >> }

ErrPrograms ==
  ErrConstructs \cup {PrintCall(<< IntTok(0) >>) \o e : e \in ErrConstructs}

\* a function g called from inside a block or another function that holds
\* a local; g reads a name that is the caller's local, a top-level
\* variable, its own parameter or its own local
ClosurePrograms ==
  LET Block(b) == << Tk("LCurly") >> \o b \o << Tk("RCurly") >>
      IntDecl(n, v) == DeclOf("IntType", n, << IntTok(v) >>)
      G(params, body) == FuncDef("IntType", "g", params, body)
      IntParam(n) == << TypeKw("IntType"), Id(n) >>
  IN
  UNION {
    { G(<< >>, Return(<< Id("y") >>))
        \o Block(IntDecl("y", v) \o PrintCall(CallOf("g", << >>))),
      IntDecl("y", 5) \o G(<< >>, Return(<< Id("y") >>))
        \o Block(IntDecl("y", v) \o PrintCall(CallOf("g", << >>))),
      G(<< >>, Return(<< Id("q") >>))
        \o FuncDef("IntType", "h", IntParam("q"), Return(CallOf("g", << >>)))
        \o PrintCall(CallOf("h", << IntTok(v) >>)),
      G(IntParam("p"), Block(IntDecl("z", 2)
                              \o Return(<< Id("p"), Tk("Plus"), Id("z") >>)))
        \o Block(IntDecl("y", v) \o PrintCall(CallOf("g", << Id("y") >>))),
      IntDecl("y", 5) \o G(IntParam("y"), Return(<< Id("y") >>))
        \o Block(IntDecl("y", v) \o PrintCall(CallOf("g", << IntTok(7) >>))),
      G(<< >>, Block(IntDecl("y", 9) \o Return(<< Id("y") >>)))
        \o Block(IntDecl("y", v) \o PrintCall(CallOf("g", << >>))
                   \o PrintCall(<< Id("y") >>)) } : v \in {1, 2} }

\* assignments to an identifier and to something else
TargetPrograms ==
  LET IntDecl(n, v) == DeclOf("IntType", n, << IntTok(v) >>) IN
  { IntDecl("x", 1) \o << Id("x"), Tk("Equal"), IntTok(3) >> \o Semi
      \o PrintCall(<< Id("x") >>),
    IntDecl("x", 1) \o << Tk("LParen"), Id("x"), Tk("RParen"), Tk("Equal"),
                          IntTok(3) >> \o Semi \o PrintCall(<< Id("x") >>),
    IntDecl("x", 1) \o IntDecl("y", 2)
      \o << Id("x"), Tk("Plus"), Id("y"), Tk("Equal"), IntTok(3) >> \o Semi,
    IntDecl("a", 1)
      \o << Id("a"), Tk("LBrac"), IntTok(1), Tk("RBrac"), Tk("Equal"), IntTok(2) >>
      \o Semi,
    << IntTok(1), Tk("Equal"), IntTok(2) >> \o Semi }

\* blocks: empty, ending Normal, left by return at some statement, in a
\* function whose call prints the value returned
BlockPrograms ==
  LET Block(b) == << Tk("LCurly") >> \o b \o << Tk("RCurly") >>
      P(n) == PrintCall(<< IntTok(n) >>)
      G(body) == FuncDef("IntType", "g", << >>, body)
                   \o PrintCall(CallOf("g", << >>))
  IN
  { Block(<< >>),
    Block(<< >>) \o P(1),
    Block(P(1) \o P(2)),
    Block(P(1) \o Block(<< >>) \o P(2)),
    G(Block(Block(Return(<< IntTok(5) >>) \o P(1)) \o P(2))),
    G(Block(P(1) \o Block(P(2)) \o Return(<< IntTok(3) >>) \o P(4))),
    G(Block(P(1) \o Return(<< StrTok("s") >>) \o Return(<< IntTok(3) >>))),
    G(Block(P(1) \o << Id("u") >> \o Semi \o P(2))) }

\* declarations of several names and of arrays, at top level and in a block
DeclListPrograms ==
  LET bodies ==
        { << TypeKw(T), Id("x"), Tk("Equal"), Lit(T, 1), Tk("Comma"), Id("y") >>
            \o Semi \o PrintCall(<< Id("y") >>) : T \in Types }
        \cup { << TypeKw("IntType"), Id("a"), Tk("LBrac"), IntTok(2), Tk("RBrac"),
                  Tk("Comma"), Id("b"), Tk("Equal"), IntTok(3) >> \o Semi,
               << TypeKw("IntType"), Id("x"), Tk("Equal"), Id("f"), Tk("LParen"),
                  Tk("RParen") >> \o Semi,
               << TypeKw("IntType"), Id("x"), Id("y") >> \o Semi,
               << TypeKw("IntType"), Id("x"), Tk("Comma") >> \o Semi }
  IN bodies \cup {<< Tk("LCurly") >> \o b \o << Tk("RCurly") >> : b \in bodies}

\* T f ( ) body  f ( ) ;  with a body that returns a literal of type U,
\* returns nothing, or has no return statement
ReturnPrograms ==
  LET RetTypes == Types \cup {"VoidType"}
      F(T, body) == FuncDef(T, "f", << >>, body)
  IN
  {F(T, Return(<< Lit(U, 4) >>)) \o PrintCall(CallOf("f", << >>)) :
     T \in RetTypes, U \in Types}
  \cup {F(T, body) \o PrintCall(CallOf("f", << >>)) \o PrintCall(<< IntTok(9) >>) :
          T \in RetTypes,
          body \in {Return(<< >>), PrintCall(<< IntTok(1) >>),
                    << Tk("LCurly"), Tk("RCurly") >>}}

\* T x = 1 ; { T2 x = 2 ; x = lit of U ; print ( x ) ; } print ( x ) ;
\* and assignments to an outer, a top-level and an undefined variable
AssignPrograms ==
  LET TT == {"IntType", "DoubleType", "StringType"}
      Block(b) == << Tk("LCurly") >> \o b \o << Tk("RCurly") >>
      Set(n, e) == << Id(n), Tk("Equal") >> \o e \o Semi
      IntDecl(n, v) == DeclOf("IntType", n, << IntTok(v) >>)
      Px == PrintCall(<< Id("x") >>)
  IN
  {DeclOf(T, "x", << Lit(T, 1) >>)
     \o Block(DeclOf(T2, "x", << Lit(T2, 2) >>) \o Set("x", << Lit(U, 3) >>) \o Px)
     \o Px : T \in TT, T2 \in TT, U \in TT}
  \cup {DeclOf(T, "x", << Lit(T, 1) >>)
          \o Block(IntDecl("y", 2) \o Set("x", << Lit(U, 3) >>) \o Px) \o Px :
        T \in TT, U \in TT}
  \cup { Set("z", << IntTok(1) >>) \o PrintCall(<< IntTok(2) >>),
         IntDecl("x", 1)
           \o FuncDef("IntType", "g", << >>,
                      Block(Set("x", << IntTok(5) >>) \o Return(<< IntTok(0) >>)))
           \o Block(IntDecl("x", 2) \o CallOf("g", << >>) \o Semi \o Px) \o Px,
         IntDecl("x", 1)
           \o Block(DeclOf("DoubleType", "y", << >>)
                      \o Set("x", << Id("y"), Tk("Equal"), IntTok(3) >>)
                      \o PrintCall(<< Id("y") >>)) \o Px,
         IntDecl("x", 1)
           \o Block(DeclOf("DoubleType", "y", << >>)
                      \o Set("y", << Id("x"), Tk("Equal"), IntTok(3) >>)
                      \o PrintCall(<< Id("y") >>)) \o Px }

\* while, for, break, continue and if statements at top level, in a
\* block and in the body of a called function
LoopPrograms ==
  LET P(n) == PrintCall(<< IntTok(n) >>)
      Cond(kw, c) == << Tk(kw), Tk("LParen"), BoolTok(c), Tk("RParen") >>
      stmts ==
        { Cond("Kw_while", TRUE) \o P(1),
          Cond("Kw_while", FALSE) \o P(1),
          << Tk("Kw_for"), Tk("LParen"), Tk("Semicolon"), Tk("Semicolon"),
             Tk("RParen") >> \o P(1),
          << Tk("Kw_break") >> \o Semi,
          << Tk("Kw_continue") >> \o Semi,
          Cond("Kw_if", TRUE) \o << Tk("Kw_break") >> \o Semi,
          Cond("Kw_if", FALSE) \o Return(<< IntTok(1) >>) \o << Tk("Kw_else") >>
            \o << Tk("Kw_continue") >> \o Semi }
  IN
  UNION { { st \o P(2),
            << Tk("LCurly") >> \o P(1) \o st \o P(2) \o << Tk("RCurly") >> \o P(3),
            FuncDef("IntType", "g", << >>,
                    << Tk("LCurly") >> \o st \o Return(<< IntTok(4) >>)
                      \o << Tk("RCurly") >>)
              \o PrintCall(CallOf("g", << >>)) } : st \in stmts }

\* an if statement after  int x = 1;  and before the use of x, at top
\* level, in a block and in the body of a called function; conditions that
\* are true, false, not a bool, an assignment, an undefined name and a
\* call that prints; branches that return, assign, print, declare and break
IfPrograms ==
  LET Conds == { << BoolTok(TRUE) >>, << BoolTok(FALSE) >>,
                 << IntTok(1), Tk("Plus"), IntTok(1) >>,
                 << Id("x"), Tk("Equal"), IntTok(5) >>,
                 << Id("y") >>,
                 CallOf("print", << IntTok(8) >>) }
      Thens == { Return(<< IntTok(2) >>),
                 << Id("x"), Tk("Equal"), IntTok(7) >> \o Semi,
                 PrintCall(<< IntTok(9) >>),
                 << Tk("LCurly") >> \o DeclOf("IntType", "x", << IntTok(2) >>)
                   \o Return(<< Id("x") >>) \o << Tk("RCurly") >>,
                 << Tk("Kw_break") >> \o Semi }
      Elses == { << >>,
                 << Tk("Kw_else") >> \o Return(<< IntTok(3) >>),
                 << Tk("Kw_else"), Id("x"), Tk("Equal"), IntTok(8) >> \o Semi }
      If(c, t, e) == << Tk("Kw_if"), Tk("LParen") >> \o c \o << Tk("RParen") >>
                       \o t \o e
      X == DeclOf("IntType", "x", << IntTok(1) >>)
  IN
  UNION { { X \o If(c, t, e) \o PrintCall(<< Id("x") >>),
            << Tk("LCurly") >> \o X \o If(c, t, e) \o PrintCall(<< Id("x") >>)
              \o << Tk("RCurly") >>,
            FuncDef("IntType", "g", << >>,
                    << Tk("LCurly") >> \o X \o If(c, t, e)
                      \o Return(<< Id("x") >>) \o << Tk("RCurly") >>)
              \o PrintCall(CallOf("g", << >>)) } :
          c \in Conds, t \in Thens, e \in Elses }

\* void followed by an identifier and then by a token that is or is not
\* a left parenthesis, first in the source and after a statement
VoidPrograms ==
  LET After == { Semi,
                 << Tk("Equal"), IntTok(1) >> \o Semi,
                 << Tk("Comma"), Id("y") >> \o Semi,
                 << Tk("RParen") >> \o Return(<< >>),
                 << Tk("LCurly"), Tk("RCurly") >>,
                 << >>,
                 << Tk("LParen"), Tk("RParen") >> \o Return(<< >>)
                   \o CallOf("x", << >>) \o Semi,
                 << Tk("LParen"), Tk("Kw_void"), Tk("RParen"), Tk("LCurly"),
                    Tk("RCurly") >> \o CallOf("x", << >>) \o Semi }
      Before == { << >>, PrintCall(<< IntTok(0) >>),
                  DeclOf("IntType", "x", << >>) }
  IN
  { b \o << Tk("Kw_void"), Id("x") >> \o a \o PrintCall(<< IntTok(1) >>) :
    b \in Before, a \in After }

\* the binary operators other than = and []
LogicToks == { Tk("AmpAmp"), Tk("PipePipe") }
CalcToks ==
  { Tk("Plus"), Tk("Minus"), Tk("Star"), Tk("Slash"), Tk("Percent"),
    Tk("Less"), Tk("LessEqual"), Tk("EqualEqual"), Tk("ExclaimEqual"),
    Tk("Greater"), Tk("GreaterEqual"), Tk("Amp"), Tk("Pipe"), Tk("Caret"),
    Tk("LessLess"), Tk("GreaterGreater") }

\* T f() { print(1); return l; }  T g() { print(2); return r; }
\* print(f() op g());
OrderCallPrograms ==
  LET Fn(T, name, n, v) ==
        FuncDef(T, name, << >>,
                << Tk("LCurly") >> \o PrintCall(<< IntTok(n) >>) \o Return(<< v >>)
                  \o << Tk("RCurly") >>)
      Use(op) == PrintCall(CallOf("f", << >>) \o << op >> \o CallOf("g", << >>))
  IN
  { Fn("BoolType", "f", 1, BoolTok(l)) \o Fn("BoolType", "g", 2, BoolTok(r))
      \o Use(op) : l \in BOOLEAN, r \in BOOLEAN, op \in LogicToks }
  \cup
  { Fn("IntType", "f", 1, IntTok(6)) \o Fn("IntType", "g", 2, IntTok(3))
      \o Use(op) : op \in CalcToks }

\* print(l op y); print(3);  with y undefined
OrderRightFatalPrograms ==
  { PrintCall(<< l, op, Id("y") >>) \o PrintCall(<< IntTok(3) >>) :
    l \in {BoolTok(TRUE), BoolTok(FALSE)}, op \in LogicToks }
  \cup
  { PrintCall(<< IntTok(6), op, Id("y") >>) \o PrintCall(<< IntTok(3) >>) :
    op \in CalcToks }

\* bool g() { print(2); return true; }  print(y op g());  with y undefined
OrderLeftFatalPrograms ==
  { FuncDef("BoolType", "g", << >>,
            << Tk("LCurly") >> \o PrintCall(<< IntTok(2) >>)
              \o Return(<< BoolTok(TRUE) >>) \o << Tk("RCurly") >>)
      \o PrintCall(<< Id("y"), op >> \o CallOf("g", << >>)) :
    op \in LogicToks \cup CalcToks }

\* bool b = v; print(l op (b = w)); print(b);
OrderAssignPrograms ==
  { DeclOf("BoolType", "b", << BoolTok(v) >>)
      \o PrintCall(<< BoolTok(l), op, Tk("LParen"), Id("b"), Tk("Equal"),
                      BoolTok(~v), Tk("RParen") >>)
      \o PrintCall(<< Id("b") >>) :
    v \in BOOLEAN, l \in BOOLEAN, op \in LogicToks }

OrderPrograms ==
  OrderCallPrograms \cup OrderRightFatalPrograms \cup OrderLeftFatalPrograms
    \cup OrderAssignPrograms

\* print(l % r); print(9);  for operands of every type, and % between
\* + and * operators
ModuloPrograms ==
  LET Vals == { IntTok(7), IntTok(3), IntTok(0), DblTok(7), DblTok(2),
                BoolTok(TRUE), StrTok("7") }
  IN
  { PrintCall(<< l, Tk("Percent"), r >>) \o PrintCall(<< IntTok(9) >>) :
    l \in Vals, r \in Vals }
  \cup
  { PrintCall(<< IntTok(1), a, IntTok(7), Tk("Percent"), IntTok(3), b, IntTok(2) >>)
      \o PrintCall(<< IntTok(9) >>) :
    a \in {Tk("Plus"), Tk("Star")}, b \in {Tk("Plus"), Tk("Star")} }
  \cup
  { PrintCall(<< IntTok(7), op, IntTok(3) >>) \o PrintCall(<< IntTok(9) >>) :
    op \in {Tk("Plus"), Tk("Minus"), Tk("Star"), Tk("Slash")} }

\* sources with one error token: where a top-level entity would start
\* (first, after a statement, after a function definition) and inside a
\* statement, an expression, a declaration, a block and a definition
ErrorTokenPrograms ==
  LET E == << Tk("Error") >>
      P(n) == PrintCall(<< IntTok(n) >>)
  IN
  { E, E \o P(2), P(1) \o E, P(1) \o E \o P(2),
    FuncDef("IntType", "f", << >>, Return(<< IntTok(1) >>)) \o E
      \o PrintCall(CallOf("f", << >>)),
    DeclOf("IntType", "x", << IntTok(1) >>) \o E \o PrintCall(<< Id("x") >>) }
  \cup
  { PrintCall(<< IntTok(1) >> \o E),
    PrintCall(E),
    P(1) \o << IntTok(2), Tk("Plus") >> \o E \o Semi,
    P(1) \o << IntTok(2) >> \o E \o Semi,
    << TypeKw("IntType"), Id("x"), Tk("Equal") >> \o E \o Semi,
    << TypeKw("IntType") >> \o E \o Semi,
    << Tk("LCurly") >> \o E \o << Tk("RCurly") >>,
    << Tk("Kw_return") >> \o E \o Semi,
    << Tk("Kw_if"), Tk("LParen"), BoolTok(TRUE), Tk("RParen") >> \o E \o Semi,
    << TypeKw("IntType"), Id("f"), Tk("LParen"), Tk("RParen") >> \o E \o Semi,
    << Tk("Kw_infix"), IntTok(5), Id("a"), Sym("<>"), Id("b") >> \o E \o Semi }

Programs ==
  ErrorTokenPrograms \cup ModuloPrograms \cup OrderPrograms \cup VoidPrograms \cup IfPrograms \cup LoopPrograms \cup AssignPrograms \cup ReturnPrograms \cup DeclListPrograms \cup BlockPrograms \cup TargetPrograms \cup ClosurePrograms \cup ErrPrograms \cup ExprPrograms \cup InfixPrograms \cup ApplyPrograms \cup FuncPrograms
    \cup DeclPrograms \cup ScopePrograms \cup CallPrograms \cup FlowPrograms
    \cup CalcPrograms

(***************************************************************************)
(* The run: parse(), then interpret().                                     *)
(***************************************************************************)
UBOutcomes == {"!crash", "a"}

Init ==
  /\ source \in Programs
  /\ Lexer = [pos |-> 0, diag |-> << >>, CurrentBlock |-> << >>]
  /\ BinOpPrecedence = [s \in {} |-> 0]
  /\ InfixOpDefinition = [s \in {} |-> Null]
  /\ FunctionDefinition = [s \in {} |-> Null]
  /\ TopLevelBlock = << >>
  /\ pc = "parse"
  /\ NextStmt = 1
  /\ TopLevelEnv = EmptyEnv
  /\ Fatal = ""
  /\ Output = << >>
  /\ History = << >>

\* parse(): the first Lex()
ParseBegin ==
  /\ pc = "parse"
  /\ Lexer' = Lex(Lexer)
  /\ pc' = "toplevel"
  /\ UNCHANGED << source, BinOpPrecedence, InfixOpDefinition, FunctionDefinition,
                  TopLevelBlock, NextStmt, TopLevelEnv, Fatal, Output, History >>

\* parse(): one turn of the loop, parseTopLevel() succeeding or failing
ParseTopLevel ==
  /\ pc = "toplevel"
  /\ getKind(Lexer) \notin {"Eof", "Error"}
  /\ With(parseTopLevel(Lexer), LAMBDA r :
       /\ Lexer' = r.L
       /\ BinOpPrecedence' = r.prec
       /\ InfixOpDefinition' = r.infix
       /\ FunctionDefinition' = r.func
       /\ TopLevelBlock' = r.stmts
       /\ pc' = IF r.err THEN "parseFailed" ELSE "toplevel")
  /\ UNCHANGED << source, NextStmt, TopLevelEnv, Fatal, Output, History >>

\* parse(): the loop ends at end of input or at an error token; parse()
\* returns false and the interpreter is started
ParseReturn ==
  /\ pc = "toplevel"
  /\ getKind(Lexer) \in {"Eof", "Error"}
  /\ pc' = "interpret"
  /\ UNCHANGED << source, Lexer, BinOpPrecedence, InfixOpDefinition,
                  FunctionDefinition, TopLevelBlock, NextStmt, TopLevelEnv,
                  Fatal, Output, History >>

\* a variant of the turn that goes on after a statement that was left by
\* return, break or continue
InterpretStatementGoOn ==
  /\ pc = "interpret"
  /\ NextStmt <= Len(TopLevelBlock)
  /\ \E ub \in UBOutcomes :
       LET S == [Top |-> TopLevelEnv, Envs |-> << >>, Fatal |-> "",
                 Output |-> Output, History |-> History, ub |-> ub]
       IN
       With(executeStatement(S, TopLevelBlock[NextStmt]), LAMBDA Res :
       With(Res.S, LAMBDA T :
         /\ TopLevelEnv' = T.Top
         /\ Fatal' = T.Fatal
         /\ Output' = T.Output
         /\ History' = Append(T.History,
                               [ev |-> "interpret", Stmt |-> NextStmt,
                                Kind |-> Res.Kind, Died |-> ~Running(Res.S)])
         /\ pc' = IF Running(T) THEN "interpret" ELSE "fatal"
         /\ NextStmt' = IF Running(T) THEN NextStmt + 1 ELSE NextStmt))
  /\ UNCHANGED << source, Lexer, BinOpPrecedence, InfixOpDefinition,
                  FunctionDefinition, TopLevelBlock >>

\* interpret(): one turn of the loop
InterpretStatement ==
  /\ pc = "interpret"
  /\ NextStmt <= Len(TopLevelBlock)
  /\ \E ub \in UBOutcomes :
       LET S == [Top |-> TopLevelEnv, Envs |-> << >>, Fatal |-> "",
                 Output |-> Output, History |-> History, ub |-> ub]
       IN
       With(executeStatement(S, TopLevelBlock[NextStmt]), LAMBDA Res :
       With(IF Running(Res.S) /\ Res.Kind # "NormalStatementResult"
                  THEN RuntimeError(Res.S, "unbounded break/continue/return")
                  ELSE Res.S, LAMBDA T :
         /\ TopLevelEnv' = T.Top
         /\ Fatal' = T.Fatal
         /\ Output' = T.Output
         /\ History' = Append(T.History,
                               [ev |-> "interpret", Stmt |-> NextStmt,
                                Kind |-> Res.Kind, Died |-> ~Running(Res.S)])
         /\ pc' = IF Running(T) THEN "interpret" ELSE "fatal"
         /\ NextStmt' = IF Running(T) THEN NextStmt + 1 ELSE NextStmt))
  /\ UNCHANGED << source, Lexer, BinOpPrecedence, InfixOpDefinition,
                  FunctionDefinition, TopLevelBlock >>

\* interpret(): every top-level statement has been executed
InterpretReturn ==
  /\ pc = "interpret"
  /\ NextStmt > Len(TopLevelBlock)
  /\ pc' = "done"
  /\ UNCHANGED << source, Lexer, BinOpPrecedence, InfixOpDefinition,
                  FunctionDefinition, TopLevelBlock, NextStmt, TopLevelEnv,
                  Fatal, Output, History >>

Next ==
  \/ ParseBegin
  \/ ParseTopLevel
  \/ ParseReturn
  \/ InterpretStatement
  \/ InterpretReturn

Spec == Init /\ [][Next]_vars

(***************************************************************************)
(* Properties.  The parser properties look at the parse loop between two   *)
(* top-level entities: Lexer.pos is then the first token of the next one.  *)
(***************************************************************************)
RECURSIVE StmtEnd(_)
\* position of the first semicolon at or after position p
StmtEnd(p) ==
  IF p > Len(source) \/ source[p].Kind = "Semicolon" THEN p ELSE StmtEnd(p + 1)

\* the precedences the language gives its operators
FixedPrec(t) ==
  CASE t.Kind = "Equal" -> 1
    [] t.Kind = "PipePipe" -> 2
    [] t.Kind = "AmpAmp" -> 3
    [] t.Kind = "Less" -> 8
    [] t.Kind = "Plus" -> 10
    [] t.Kind = "Minus" -> 10
    [] t.Kind = "Star" -> 11
    [] OTHER -> -1

IsFixedOp(t) == FixedPrec(t) >= 2
IsRegisteredOp(t) == t.Kind = "InfixOp" /\ t.StrVal \in DOMAIN BinOpPrecedence
PrecOf(t) == IF t.Kind = "InfixOp" THEN BinOpPrecedence[t.StrVal] ELSE FixedPrec(t)
IsPrimaryTok(t) == t.Kind \in {"Identifier", "Integer"}

\* source[p..] is  primary (operator primary)+ ;  with operators from Ops
IsChain(p, Ops(_)) ==
  LET e == StmtEnd(p) IN
    /\ e <= Len(source)
    /\ e - p >= 3
    /\ (e - p) % 2 = 1
    /\ \A i \in p..(e - 1) :
         IF (i - p) % 2 = 0 THEN IsPrimaryTok(source[i]) ELSE Ops(source[i])

PrimaryNode(t) ==
  IF t.Kind = "Identifier" THEN IdentifierAST(t.StrVal) ELSE IntAST(t.IntVal)
OperatorNode(t, l, r) ==
  IF t.Kind = "InfixOp" THEN InfixOpExprAST(t.StrVal, l, r)
  ELSE BinaryOperatorAST(OperatorKindOf(t.Kind), l, r)

\* operator positions of the chain source[lo..hi]
OpPositions(lo, hi) == {k \in lo..hi : (k - lo) % 2 = 1}

RECURSIVE GroupedTree(_, _)
\* the tree of the chain source[lo..hi] by precedence and left-to-right
\* grouping: its root is the last operator of the lowest precedence
GroupedTree(lo, hi) ==
  IF lo = hi THEN PrimaryNode(source[lo])
  ELSE
    LET ks == OpPositions(lo, hi)
        low == CHOOSE q \in {PrecOf(source[k]) : k \in ks} :
                 \A k \in ks : q <= PrecOf(source[k])
        root == CHOOSE k \in ks :
                  /\ PrecOf(source[k]) = low
                  /\ \A j \in ks : PrecOf(source[j]) = low => j <= k
    IN OperatorNode(source[root], GroupedTree(lo, root - 1), GroupedTree(root + 1, hi))

RECURSIVE AssignTree(_, _)
\* the tree of a chain in which = has the lowest precedence and groups to
\* the right: its root is the first = , if there is one
AssignTree(lo, hi) ==
  LET eqs == {k \in OpPositions(lo, hi) : source[k].Kind = "Equal"} IN
  IF eqs = {} THEN GroupedTree(lo, hi)
  ELSE
    LET root == CHOOSE k \in eqs : \A j \in eqs : k <= j IN
    OperatorNode(source[root], GroupedTree(lo, root - 1), AssignTree(root + 1, hi))

IsAssign(e) == e.kind = "BinaryOperatorExpression" /\ e.OpKind = "Assign"

RECURSIVE NoAssignOnLeft(_)
\* no Assign node of the tree has an Assign node as its left operand
NoAssignOnLeft(e) ==
  IF e.kind \in {"BinaryOperatorExpression", "InfixOpExpression"}
    THEN /\ ~(IsAssign(e) /\ IsAssign(e.LHS))
         /\ NoAssignOnLeft(e.LHS)
         /\ NoAssignOnLeft(e.RHS)
    ELSE TRUE

AtStatement == pc = "toplevel"
Parsed(r, p) == ~r.err /\ r.L.pos = StmtEnd(p)

\* C1: for every expression of primaries separated by built-in operators
\* other than = and by registered user infix operators, parseExpression
\* succeeds and returns the tree grouped by precedence, equal precedences
\* grouping to the left.
C1_PrecedenceTree ==
  (AtStatement /\ IsChain(Lexer.pos, LAMBDA t : IsFixedOp(t) \/ IsRegisteredOp(t)))
    => LET r == parseExpression(Lexer) IN
         /\ Parsed(r, Lexer.pos)
         /\ r.res = GroupedTree(Lexer.pos, StmtEnd(Lexer.pos) - 1)

\* C1, for the user operators whose stored precedence is at least 1 (the
\* minimum parseExpression starts with): the same tree is returned.
C1_PrecedenceTreeFromOne ==
  (AtStatement
     /\ IsChain(Lexer.pos, LAMBDA t : IsFixedOp(t)
                             \/ (IsRegisteredOp(t) /\ PrecOf(t) >= 1)))
    => LET r == parseExpression(Lexer) IN
         /\ Parsed(r, Lexer.pos)
         /\ r.res = GroupedTree(Lexer.pos, StmtEnd(Lexer.pos) - 1)

\* a chain with two built-in and one user operator is about to be parsed
C1_Witness ==
  /\ AtStatement
  /\ IsChain(Lexer.pos, LAMBDA t : IsFixedOp(t) \/ (IsRegisteredOp(t) /\ PrecOf(t) >= 1))
  /\ StmtEnd(Lexer.pos) - Lexer.pos = 7
  /\ \E i \in Lexer.pos..StmtEnd(Lexer.pos) : source[i].Kind = "InfixOp"
  /\ \E i \in Lexer.pos..StmtEnd(Lexer.pos) : source[i].Kind = "Star"

\* C2: in every chain parseExpression accepts, = takes everything to its
\* right as its right operand, chained = nest to the right, and no Assign
\* node is the left operand of an Assign node.
C2_AssignRightAssociative ==
  (AtStatement
     /\ IsChain(Lexer.pos, LAMBDA t : FixedPrec(t) >= 1
                             \/ (IsRegisteredOp(t) /\ PrecOf(t) >= 1)))
    => LET r == parseExpression(Lexer) IN
         Parsed(r, Lexer.pos)
           => /\ r.res = AssignTree(Lexer.pos, StmtEnd(Lexer.pos) - 1)
              /\ NoAssignOnLeft(r.res)

\* C2, when = comes directly after the first primary and nowhere else
\* behind an operator: the tree is the right-nested one.
C2_AssignAfterFirstPrimary ==
  (AtStatement
     /\ IsChain(Lexer.pos, LAMBDA t : FixedPrec(t) >= 1
                             \/ (IsRegisteredOp(t) /\ PrecOf(t) >= 1))
     /\ \A k \in OpPositions(Lexer.pos, StmtEnd(Lexer.pos) - 1) :
          source[k].Kind = "Equal"
            => \A j \in OpPositions(Lexer.pos, k) : source[j].Kind = "Equal")
    => LET r == parseExpression(Lexer) IN
         /\ Parsed(r, Lexer.pos)
         /\ r.res = AssignTree(Lexer.pos, StmtEnd(Lexer.pos) - 1)
         /\ NoAssignOnLeft(r.res)

RECURSIVE Applied(_)
\* the value of a tree of <> applications over int literals when a <> b
\* stands for a - b
Applied(e) ==
  IF e.kind = "IntExpression" THEN e.IntVal ELSE Applied(e.LHS) - Applied(e.RHS)

\* the only top-level statement is print(e) with e an application of <>
PrintsApplication ==
  /\ source \in ApplyPrograms
  /\ Len(TopLevelBlock) = 1
  /\ TopLevelBlock[1].kind = "ExprStatement"
  /\ TopLevelBlock[1].Expression.kind = "FunctionCallExpression"
  /\ TopLevelBlock[1].Expression.Arguments[1].kind = "InfixOpExpression"

\* C3: after infix 5 a <> b = a - b; the statement print(x <> y <> z);
\* evaluates the applications left to right to the int (x - y) - z and
\* the run does not end in a fatal runtime error.
C3_InfixApplicationEvaluates ==
  (PrintsApplication /\ (pc = "fatal" \/ NextStmt > 1))
    => /\ Fatal = ""
       /\ Output = << IntValue(Applied(TopLevelBlock[1].Expression.Arguments[1])) >>

\* print(10 <> 3 <> 1); has been executed
C3_Witness ==
  /\ PrintsApplication
  /\ pc = "fatal" \/ NextStmt > 1
  /\ LET e == TopLevelBlock[1].Expression.Arguments[1] IN
       /\ e.LHS.kind = "InfixOpExpression"
       /\ e.LHS.LHS.IntVal = 10 /\ e.LHS.RHS.IntVal = 3 /\ e.RHS.IntVal = 1

\* positions before p of the declarations  infix P lhs s rhs ...
DeclsBefore(s, p) ==
  {k \in 1..(p - 1) :
     /\ source[k].Kind = "Kw_infix"
     /\ source[k + 1].Kind = "Integer"
     /\ source[k + 3] = Sym(s)}

\* the next statement starts  primary SYM ...
AtUseOfSymbol ==
  /\ AtStatement
  /\ Lexer.pos + 1 <= Len(source)
  /\ IsPrimaryTok(source[Lexer.pos])
  /\ source[Lexer.pos + 1].Kind = "InfixOp"
UsedSymbol == source[Lexer.pos + 1].StrVal

\* parseExpression does not stop in front of the symbol after the primary
TreatedAsOperator ==
  LET r == parseExpression(Lexer) IN r.err \/ r.L.pos > Lexer.pos + 1

\* C4: once  infix P lhs SYM rhs ...  is parsed, a later expression takes
\* SYM as a binary operator of precedence exactly P, whatever the literal P.
C4_DeclaredPrecedenceRecognised ==
  (AtUseOfSymbol /\ Cardinality(DeclsBefore(UsedSymbol, Lexer.pos)) = 1)
    => LET k == CHOOSE d \in DeclsBefore(UsedSymbol, Lexer.pos) : TRUE IN
         /\ TreatedAsOperator
         /\ getBinOpPrecedence(Lex(Lexer)) = source[k + 1].IntVal

\* C4, for the literals 1 .. 127: SYM is taken as an operator of
\* precedence exactly P.
C4_PrecedenceInByteRange ==
  (AtUseOfSymbol /\ Cardinality(DeclsBefore(UsedSymbol, Lexer.pos)) = 1)
    => LET k == CHOOSE d \in DeclsBefore(UsedSymbol, Lexer.pos) : TRUE IN
         source[k + 1].IntVal \in 1..127
           => /\ TreatedAsOperator
              /\ getBinOpPrecedence(Lex(Lexer)) = source[k + 1].IntVal

\* an expression uses <> after its declaration with precedence 128
C4_Witness ==
  /\ AtUseOfSymbol
  /\ \E k \in DeclsBefore(UsedSymbol, Lexer.pos) : source[k + 1].IntVal = 128
  /\ BinOpPrecedence[UsedSymbol] = -128

\* C5: an infix symbol is taken as a binary operator if and only if a
\* declaration of it has been parsed completely before.
C5_OperatorIffDeclared ==
  AtUseOfSymbol
    => (TreatedAsOperator <=> DeclsBefore(UsedSymbol, Lexer.pos) # {})

\* C5, use before declaration: a statement or declaration body that uses
\* an undeclared symbol makes parse() fail.
C5_UseBeforeDeclarationFails ==
  (AtStatement /\ Lexer.pos <= Len(source)
     /\ \E i \in Lexer.pos..StmtEnd(Lexer.pos) :
          /\ i <= Len(source)
          /\ source[i].Kind = "InfixOp"
          /\ ~(source[Lexer.pos].Kind = "Kw_infix" /\ i = Lexer.pos + 3)
          /\ DeclsBefore(source[i].StrVal, Lexer.pos) = {})
    => parseTopLevel(Lexer).err

\* C5, a registered symbol stays registered, with its precedence.
C5_RegisteredStays ==
  [][\A s \in DOMAIN BinOpPrecedence :
       /\ s \in DOMAIN BinOpPrecedence'
       /\ BinOpPrecedence'[s] = BinOpPrecedence[s]]_vars

\* a declaration uses its own symbol in its body
C5_Witness ==
  /\ AtStatement
  /\ Lexer.pos = 1
  /\ Len(source) > 7
  /\ source[1].Kind = "Kw_infix"
  /\ source[8].Kind = "InfixOp"

\* the source starts with two declarations of one infix symbol
TwoInfixDeclarations ==
  /\ Len(source) > 20
  /\ source[1].Kind = "Kw_infix" /\ source[11].Kind = "Kw_infix"
  /\ source[4].Kind = "InfixOp" /\ source[14] = source[4]

\* the source starts with two definitions  T f ( ) return lit ;  of one name
TwoFunctionDefinitions ==
  /\ Len(source) > 14
  /\ source[2].Kind = "Identifier" /\ source[3].Kind = "LParen"
  /\ source[5].Kind = "Kw_return"
  /\ source[9] = source[2] /\ source[10].Kind = "LParen"

TypeOfKw(t) ==
  CASE t.Kind = "Kw_bool" -> "BoolType"
    [] t.Kind = "Kw_int" -> "IntType"
    [] t.Kind = "Kw_double" -> "DoubleType"
    [] t.Kind = "Kw_string" -> "StringType"
    [] OTHER -> "VoidType"

Warned == \E i \in 1..Len(Lexer.diag) : Lexer.diag[i].sev = "Warning"
NoError == \A i \in 1..Len(Lexer.diag) : Lexer.diag[i].sev # "Error"

\* C6: after a second definition of a function name or an infix symbol a
\* warning has been given, no error, and the three tables hold the second
\* definition.
C6_LaterDefinitionWins ==
  /\ (TwoInfixDeclarations /\ AtStatement /\ Lexer.pos = 21)
       => /\ Warned /\ NoError
          /\ BinOpPrecedence[source[4].StrVal] = source[12].IntVal
          /\ InfixOpDefinition[source[4].StrVal].LHS = source[13].StrVal
          /\ InfixOpDefinition[source[4].StrVal].RHS = source[15].StrVal
          /\ InfixOpDefinition[source[4].StrVal].Statement.Expression.OpKind
               = OperatorKindOf(source[18].Kind)
  /\ (TwoFunctionDefinitions /\ AtStatement /\ Lexer.pos = 15)
       => /\ Warned /\ NoError
          /\ FunctionDefinition[source[2].StrVal].Type = TypeOfKw(source[8])
          /\ FunctionDefinition[source[2].StrVal].Statement.ReturnValue
               = parseConstantExpression([Lexer EXCEPT !.pos = 13]).res

\* C6, what does hold: a warning and no error, and the tables still hold
\* the first definition.
C6_FirstDefinitionStays ==
  /\ (TwoInfixDeclarations /\ AtStatement /\ Lexer.pos = 21)
       => /\ Warned /\ NoError
          /\ BinOpPrecedence[source[4].StrVal] = source[2].IntVal
          /\ InfixOpDefinition[source[4].StrVal].LHS = source[3].StrVal
          /\ InfixOpDefinition[source[4].StrVal].RHS = source[5].StrVal
          /\ InfixOpDefinition[source[4].StrVal].Statement.Expression.OpKind
               = OperatorKindOf(source[8].Kind)
  /\ (TwoFunctionDefinitions /\ AtStatement /\ Lexer.pos = 15)
       => /\ Warned /\ NoError
          /\ FunctionDefinition[source[2].StrVal].Type = TypeOfKw(source[1])
          /\ FunctionDefinition[source[2].StrVal].Statement.ReturnValue
               = parseConstantExpression([Lexer EXCEPT !.pos = 6]).res

\* two different definitions of f have been parsed
C6_Witness ==
  /\ TwoFunctionDefinitions /\ AtStatement /\ Lexer.pos = 15
  /\ source[1] # source[8]

(***************************************************************************)
(* The interpreter properties look at the calls recorded in History.       *)
(***************************************************************************)
Innermost(c) == c[Len(c)]
Compatible(T, v) == v.Type = T \/ (T = "DoubleType" /\ v.Type = "IntType")
ZeroOf(T) ==
  [Type |-> T, BoolVal |-> FALSE, IntVal |-> 0, DoubleVal |-> 0, StrVal |-> ""]

\* the source assigns to a variable somewhere outside a declarator
HasAssignment ==
  \E i \in 1..Len(source) :
    /\ source[i].Kind = "Equal"
    /\ (i < 3 \/ source[i - 2].Kind \notin {"Kw_bool", "Kw_int", "Kw_double",
                                            "Kw_string"})

\* the declaration has no array part, and its initializer, if it has one,
\* was evaluated to a value the declared type accepts
Initialized(e) == e.Initializer # Null
WellFormed(e) ==
  /\ ~e.Array
  /\ Initialized(e) => (e.Evaluated /\ Compatible(e.Type, e.Init))

\* the type of a literal
LiteralType(x) ==
  CASE x.kind = "IntExpression" -> "IntType"
    [] x.kind = "DoubleExpression" -> "DoubleType"
    [] x.kind = "BoolExpression" -> "BoolType"
    [] x.kind = "StringExpression" -> "StringType"
    [] OTHER -> "none"

\* what a successful declaration, a lookup and a block do to the chain
ScopingOf(e) ==
  /\ (e.ev = "executeDeclaration" /\ ~e.Fatal) =>
       /\ Len(e.After) = Len(e.AtBind)
       /\ DOMAIN Innermost(e.After) = DOMAIN Innermost(e.AtBind) \cup {e.Name}
       /\ \A n \in DOMAIN Innermost(e.AtBind) :
            Innermost(e.After)[n] = Innermost(e.AtBind)[n]
       /\ \A i \in 1..(Len(e.After) - 1) : e.After[i] = e.AtBind[i]
  /\ e.ev = "evaluateIdentifierExpr" =>
       \E i \in 1..Len(e.Chain) :
         /\ e.Name \in DOMAIN e.Chain[i]
         /\ e.Value = e.Chain[i][e.Name]
         /\ \A j \in (i + 1)..Len(e.Chain) : e.Name \notin DOMAIN e.Chain[j]
  /\ e.ev = "executeBlock" =>
       /\ Len(e.After) = Len(e.Before)
       /\ \A i \in 1..Len(e.Before) : DOMAIN e.After[i] = DOMAIN e.Before[i]
       /\ ~HasAssignment => e.After = e.Before

\* C7 as stated: a declaration of N is fatal if and only if N is bound in
\* the innermost environment; a successful one binds N there and changes
\* nothing else, lookups yield the innermost binding, and a block leaves
\* the chain it was entered with.
C7_FatalIffBound ==
  \A k \in 1..Len(History) :
    LET e == History[k] IN
      /\ e.ev = "executeDeclaration" =>
           (e.Fatal <=> e.Name \in DOMAIN Innermost(e.Before))
      /\ ScopingOf(e)

\* C7, amended: a declaration of N is fatal whenever N is bound in the
\* innermost environment; one without array part whose initializer, if
\* any, evaluates to a value the declared type accepts is fatal only then;
\* a successful one binds N in the innermost environment and changes
\* nothing else, lookups yield the innermost binding, and a block leaves
\* the chain it was entered with.
C7_RedeclarationAndShadowing ==
  \A k \in 1..Len(History) :
    LET e == History[k] IN
      /\ e.ev = "executeDeclaration" =>
           LET bound == e.Name \in DOMAIN Innermost(e.Before) IN
             /\ bound => (e.Fatal /\ e.After = e.Before)
             /\ (~bound /\ WellFormed(e)) => ~e.Fatal
      /\ ScopingOf(e)

\* x was declared again inside a block, printed there and printed again
\* after the block
C7_Witness ==
  /\ pc = "done"
  /\ Output = << StringValue("2"), IntValue(1) >>
  /\ \E k \in 1..Len(History) :
       /\ History[k].ev = "executeDeclaration"
       /\ ~History[k].Fatal
       /\ Len(History[k].Before) = 3
       /\ History[k].Name \in DOMAIN History[k].Before[1]

\* C8 as stated: a declaration of type T with an initializer of type U
\* succeeds exactly when U = T or T is double and U is int, and binds a
\* value of tag T; one without initializer binds the zero value of T.
C8_SucceedsIffCompatible ==
  \A k \in 1..Len(History) :
    LET e == History[k] IN
      (e.ev = "executeDeclaration" /\ ~e.Array) =>
        IF ~Initialized(e)
          THEN ~e.Fatal /\ Innermost(e.After)[e.Name] = ZeroOf(e.Type)
        ELSE LiteralType(e.Initializer) # "none" =>
          /\ ~e.Fatal <=> Compatible(e.Type, [Type |-> LiteralType(e.Initializer)])
          /\ ~e.Fatal => Innermost(e.After)[e.Name].Type = e.Type

\* C8, amended: a declaration of type T of a name not yet bound in the
\* innermost environment: with an initializer of type U it succeeds exactly
\* when U = T or T is double and U is int, binding the value (the int as
\* the equal double) under tag T, and otherwise is fatal and binds nothing;
\* without initializer it binds the zero value of T.
C8_DeclarationTypes ==
  \A k \in 1..Len(History) :
    LET e == History[k] IN
      (/\ e.ev = "executeDeclaration"
       /\ e.Name \notin DOMAIN Innermost(e.Before)
       /\ ~e.Array)
        => IF ~Initialized(e)
             THEN ~e.Fatal /\ Innermost(e.After)[e.Name] = ZeroOf(e.Type)
           ELSE IF ~e.Evaluated THEN e.Fatal
           ELSE
             /\ ~e.Fatal <=> Compatible(e.Type, e.Init)
             /\ e.Fatal =>
                  /\ e.After = e.AtBind
                  /\ e.Name \notin DOMAIN Innermost(e.After)
             /\ ~e.Fatal =>
                  /\ Innermost(e.After)[e.Name].Type = e.Type
                  /\ IF e.Init.Type = e.Type
                       THEN Innermost(e.After)[e.Name] = e.Init
                       ELSE Innermost(e.After)[e.Name].DoubleVal = e.Init.IntVal

\* double x = 3; has bound x to the double 3
C8_Witness ==
  \E k \in 1..Len(History) :
    /\ History[k].ev = "executeDeclaration"
    /\ ~History[k].Fatal
    /\ History[k].Type = "DoubleType"
    /\ History[k].Evaluated /\ History[k].Init = IntValue(3)
    /\ Innermost(History[k].After)["x"].Type = "DoubleType"
    /\ Innermost(History[k].After)["x"].DoubleVal = 3

\* C9: a call of a user function is fatal exactly when the number of
\* arguments differs from the number of parameters or some argument's type
\* differs from its parameter's type (an int for a double included);
\* otherwise the parameter names are bound to the arguments in order.
C9_CallChecks ==
  \A k \in 1..Len(History) :
    LET e == History[k] IN
      e.ev = "callUserFunction" =>
        LET P == e.ParameterList
            A == e.Args
            mismatch == \/ Len(A) # Len(P)
                        \/ \E i \in 1..Len(A) : A[i].Type # P[i].Type
        IN
          /\ e.Fatal <=> mismatch
          /\ e.Fatal => Fatal # ""
          /\ ~e.Fatal =>
               /\ DOMAIN e.FuncEnv = {P[i].Name : i \in 1..Len(P)}
               /\ \A i \in 1..Len(P) :
                    (\A j \in (i + 1)..Len(P) : P[j].Name # P[i].Name)
                      => e.FuncEnv[P[i].Name] = A[i]

\* f(double p, ...) was called with an int as first argument
C9_Witness ==
  /\ pc = "fatal"
  /\ \E k \in 1..Len(History) :
       /\ History[k].ev = "callUserFunction"
       /\ History[k].Fatal
       /\ Len(History[k].Args) = Len(History[k].ParameterList)
       /\ Len(History[k].Args) = 2
       /\ History[k].ParameterList[1].Type = "DoubleType"
       /\ History[k].Args[1].Type = "IntType"

\* the turns interpret() has taken
Turns == SelectSeq(History, LAMBDA e : e.ev = "interpret")

RECURSIVE ReachesReturn(_)
\* the statement is a return, or a block that comes to a return after
\* expression statements only
ReachesReturn(Stmt) ==
  \/ Stmt.kind = "ReturnStatement"
  \/ /\ Stmt.kind = "BlockStatement"
     /\ \E i \in 1..Len(Stmt.StatementList) :
          /\ ReachesReturn(Stmt.StatementList[i])
          /\ \A j \in 1..(i - 1) : Stmt.StatementList[j].kind = "ExprStatement"

\* C10: interpret() executes the top-level statements in source order; a
\* statement left by return, break or continue, from whatever depth of
\* blocks, ends the run in a fatal error and is the last one executed.
C10_InterpretStopsAtNonNormal ==
  pc \in {"interpret", "fatal", "done"} =>
    /\ \A k \in 1..Len(Turns) : Turns[k].Stmt = k
    /\ Len(Turns) = IF pc = "fatal" THEN NextStmt ELSE NextStmt - 1
    /\ pc = "done" => Len(Turns) = Len(TopLevelBlock)
    /\ \A k \in 1..Len(Turns) :
         /\ (Turns[k].Kind # "NormalStatementResult" \/ Turns[k].Died)
              => (k = Len(Turns) /\ pc = "fatal" /\ Fatal # "")
         /\ (Turns[k].Kind # "NormalStatementResult" /\ ~Turns[k].Died)
              => Fatal = "unbounded break/continue/return"
         /\ (ReachesReturn(TopLevelBlock[k]) /\ ~Turns[k].Died)
              => Turns[k].Kind = "ReturnStatementResult"

\* a return inside a block ended the run before the last top-level statement
C10_Witness ==
  /\ pc = "fatal"
  /\ Fatal = "unbounded break/continue/return"
  /\ NextStmt < Len(TopLevelBlock)
  /\ TopLevelBlock[NextStmt].kind = "BlockStatement"
  /\ Len(Turns) = NextStmt
  /\ Turns[NextStmt].Kind = "ReturnStatementResult"

\* the text of a value, as the spec gives it
Shown(v) ==
  CASE v.Type = "StringType" -> v.StrVal
    [] v.Type = "IntType" -> ToString(v.IntVal)
    [] v.Type = "DoubleType" -> ToString(v.DoubleVal)
    [] v.Type = "BoolType" -> IF v.BoolVal THEN "true" ELSE "false"

Calcs == SelectSeq(History, LAMBDA e : e.ev = "evaluateBinaryCalc")

\* C11: for +, when at least one operand is a string the result is the
\* string made of the text of the left operand followed by the text of the
\* right operand, whatever the type of the other operand (bool, int,
\* double, string); when neither is a string the result is not a string,
\* and for two numbers it is their sum.
C11_PlusConcatenatesStrings ==
  \A k \in 1..Len(Calcs) :
    LET e == Calcs[k] IN
      (e.OpKind = "Add" /\ e.LHS.Type \in Types /\ e.RHS.Type \in Types) =>
        IF e.LHS.Type = "StringType" \/ e.RHS.Type = "StringType"
          THEN /\ ~e.Fatal
               /\ e.Value = StringValue(Shown(e.LHS) \o Shown(e.RHS))
          ELSE /\ e.Value.Type # "StringType"
               /\ (IsNumeric(e.LHS) /\ IsNumeric(e.RHS)) =>
                    /\ ~e.Fatal
                    /\ NumVal(e.Value) = NumVal(e.LHS) + NumVal(e.RHS)

\* print("a" + 1) printed a1
C11_Witness ==
  /\ pc = "done"
  /\ Output = << StringValue("a1") >>
  /\ \E k \in 1..Len(Calcs) :
       /\ Calcs[k].OpKind = "Add"
       /\ Calcs[k].LHS = StringValue("a")
       /\ Calcs[k].RHS = IntValue(1)

\* the hard errors reported so far
Errors(L) == SelectSeq(L.diag, LAMBDA d : d.sev = "Error")

\* C12: a hard parse error aborts the whole unit: in the step where a parse
\* function calls Error, parse() returns failure, and no function, operator
\* or statement is registered from the construct that failed.
C12_ParseErrorAborts ==
  [][Len(Errors(Lexer')) > Len(Errors(Lexer)) =>
       /\ pc' = "parseFailed"
       /\ UNCHANGED << BinOpPrecedence, InfixOpDefinition, FunctionDefinition,
                       TopLevelBlock >>]_vars

\* the same for every error but an unknown type specifier met at the closing
\* parenthesis of a parameter list
C12_ErrorOutsideParameterListAborts ==
  [][(/\ Len(Errors(Lexer')) > Len(Errors(Lexer))
      /\ ~(/\ Errors(Lexer')[Len(Errors(Lexer'))].msg = "unknown type specifier"
            /\ FunctionDefinition' # FunctionDefinition)) =>
       /\ pc' = "parseFailed"
       /\ UNCHANGED << BinOpPrecedence, InfixOpDefinition, FunctionDefinition,
                       TopLevelBlock >>]_vars

\* int f(int a, ) return a; print(f(1)); was parsed with an error reported,
\* f was registered, called and its result printed
C12_Witness ==
  /\ pc = "done"
  /\ Len(Errors(Lexer)) = 1
  /\ "f" \in DOMAIN FunctionDefinition
  /\ Len(FunctionDefinition["f"].ParameterList) = 1
  /\ Output = << IntValue(1) >>

\* calls entered and calls left among the events a..b
Enters(a, b) ==
  Cardinality({m \in a..b : History[m].ev = "callUserFunction" /\ ~History[m].Fatal})
Returns(a, b) == Cardinality({m \in a..b : History[m].ev = "callReturn"})

\* the call whose body event j belongs to, 0 outside every function
Owner(j) ==
  LET ks == {k \in 1..(j - 1) :
               /\ History[k].ev = "callUserFunction" /\ ~History[k].Fatal
               /\ \A m \in (k + 1)..(j - 1) :
                    Returns(k + 1, m) <= Enters(k + 1, m)}
  IN IF ks = {} THEN 0 ELSE CHOOSE k \in ks : \A x \in ks : x <= k

\* the names the callee of call k has bound itself before event j
OwnNames(k, j) ==
  {History[k].ParameterList[i].Name : i \in 1..Len(History[k].ParameterList)}
    \cup {History[m].Name : m \in {x \in (k + 1)..(j - 1) :
                                      /\ History[x].ev = "executeDeclaration"
                                      /\ ~History[x].Fatal
                                      /\ Owner(x) = k}}

\* the names that only environments of the caller hold
CallerOnly(k) ==
  UNION {DOMAIN History[k].Caller[i] : i \in 2..Len(History[k].Caller)}
    \ DOMAIN History[k].Caller[1]

\* C13: the body of a user function starts in a fresh environment, holding
\* the parameters, whose outer link is the top-level environment; inside
\* the callee a name resolves only to a parameter, a local of the callee or
\* a top-level variable, a name that is none of these is undefined (fatal)
\* also when the caller holds it, and a name found only at top level has
\* the top-level value.
C13_CalleeChainedToTopLevel ==
  \A j \in 1..Len(History) :
    LET e == History[j] IN
      /\ (e.ev = "callUserFunction" /\ ~e.Fatal) =>
           e.Body = << e.Caller[1], e.FuncEnv >>
      /\ (e.ev \in {"evaluateIdentifierExpr", "undefinedVariable"}
           /\ Owner(j) # 0) =>
           LET k == Owner(j)
               own == e.Name \in OwnNames(k, j)
               top == e.Name \in DOMAIN e.Chain[1]
           IN
             /\ e.ev = "evaluateIdentifierExpr" => (own \/ top)
             /\ (~own /\ top) => /\ e.ev = "evaluateIdentifierExpr"
                                  /\ e.Value = e.Chain[1][e.Name]
             /\ (~own /\ ~top) => /\ e.ev = "undefinedVariable"
                                   /\ Fatal = "variable is undefined"

\* the callee read a name that only the caller's environment holds, and
\* the run ended with an undefined variable
C13_Witness ==
  /\ pc = "fatal"
  /\ Fatal = "variable is undefined"
  /\ \E j \in 1..Len(History) :
       /\ History[j].ev = "undefinedVariable"
       /\ Owner(j) # 0
       /\ History[j].Name \in CallerOnly(Owner(j))

RECURSIVE AssignsToIdentifiers(_), AssignsToIdentifiersIn(_)
\* every Assign node of the expression has an identifier as left operand
AssignsToIdentifiers(e) ==
  IF e = Null THEN TRUE
  ELSE IF e.kind \in {"BinaryOperatorExpression", "InfixOpExpression"}
    THEN /\ IsAssign(e) => e.LHS.kind = "IdentifierExpression"
         /\ AssignsToIdentifiers(e.LHS)
         /\ AssignsToIdentifiers(e.RHS)
  ELSE IF e.kind = "UnaryOperatorExpression" THEN AssignsToIdentifiers(e.Operand)
  ELSE IF e.kind = "FunctionCallExpression"
    THEN \A i \in 1..Len(e.Arguments) : AssignsToIdentifiers(e.Arguments[i])
  ELSE TRUE

\* the same for every expression of a statement
AssignsToIdentifiersIn(Stmt) ==
  IF Stmt = Null THEN TRUE
  ELSE CASE Stmt.kind = "ExprStatement" -> AssignsToIdentifiers(Stmt.Expression)
         [] Stmt.kind = "ReturnStatement" -> AssignsToIdentifiers(Stmt.ReturnValue)
         [] Stmt.kind = "BlockStatement" ->
              \A i \in 1..Len(Stmt.StatementList) :
                AssignsToIdentifiersIn(Stmt.StatementList[i])
         [] Stmt.kind = "IfStatement" ->
              /\ AssignsToIdentifiers(Stmt.Condition)
              /\ AssignsToIdentifiersIn(Stmt.StatementThen)
              /\ AssignsToIdentifiersIn(Stmt.StatementElse)
         [] Stmt.kind = "WhileStatement" ->
              /\ AssignsToIdentifiers(Stmt.Condition)
              /\ AssignsToIdentifiersIn(Stmt.Statement)
         [] Stmt.kind = "ForStatement" ->
              /\ AssignsToIdentifiers(Stmt.Init)
              /\ AssignsToIdentifiers(Stmt.Condition)
              /\ AssignsToIdentifiers(Stmt.Post)
              /\ AssignsToIdentifiersIn(Stmt.Statement)
         [] Stmt.kind = "DeclarationListStatement" ->
              \A i \in 1..Len(Stmt.DeclarationList) :
                AssignsToIdentifiers(Stmt.DeclarationList[i].Initializer)
         [] OTHER -> TRUE

\* C14: every assignment node of a successfully parsed tree has an
\* identifier node as its left operand, and the interpreter never reads
\* the name of a left operand that is not an identifier node.
C14_AssignTargetIsIdentifier ==
  pc # "parseFailed" =>
    /\ \A i \in 1..Len(TopLevelBlock) : AssignsToIdentifiersIn(TopLevelBlock[i])
    /\ \A f \in DOMAIN FunctionDefinition :
         AssignsToIdentifiersIn(FunctionDefinition[f].Statement)
    /\ \A o \in DOMAIN InfixOpDefinition :
         AssignsToIdentifiersIn(InfixOpDefinition[o].Statement)
    /\ \A k \in 1..Len(History) : History[k].ev # "castToIdentifier"

\* x + y = 3; was parsed to an assignment whose left operand is the sum,
\* and the interpreter read that operand as an identifier
C14_Witness ==
  /\ \E i \in 1..Len(TopLevelBlock) :
       /\ TopLevelBlock[i].kind = "ExprStatement"
       /\ IsAssign(TopLevelBlock[i].Expression)
       /\ TopLevelBlock[i].Expression.LHS.kind = "BinaryOperatorExpression"
       /\ TopLevelBlock[i].Expression.LHS.OpKind = "Add"
       /\ TopLevelBlock[i].Expression.RHS = IntAST(3)
  /\ \E k \in 1..Len(History) :
       /\ History[k].ev = "castToIdentifier"
       /\ History[k].Kind = "BinaryOperatorExpression"

Blocks == SelectSeq(History, LAMBDA e : e.ev = "executeBlock")

\* C15: a block runs its statements in order in one fresh environment
\* chained to the enclosing one; every executed statement but the last
\* ended Normal; statements remain unexecuted only when the last executed
\* one did not end Normal (or ended the run); the block returns the kind
\* and the return value of the last executed statement, and Normal when it
\* is empty, hence Normal when all its statements ended Normal.
C15_BlockStopsAtFirstNonNormal ==
  \A k \in 1..Len(Blocks) :
    LET e == Blocks[k]
        n == Len(e.Outcomes)
        m == Len(e.Statements)
    IN
      /\ e.Inner = Append(e.Before, EmptyEnv)
      /\ n <= m
      /\ \A i \in 1..n : /\ e.Outcomes[i].Stmt = e.Statements[i]
                          /\ e.Outcomes[i].Envs = Len(e.Inner)
      /\ \A i \in 1..(n - 1) : /\ e.Outcomes[i].Kind = "NormalStatementResult"
                                /\ ~e.Outcomes[i].Died
      /\ e.Fatal <=> (n > 0 /\ e.Outcomes[n].Died)
      /\ ~e.Fatal =>
           /\ n < m => e.Outcomes[n].Kind # "NormalStatementResult"
           /\ n = 0 => (m = 0 /\ e.Kind = "NormalStatementResult")
           /\ n > 0 => /\ e.Kind = e.Outcomes[n].Kind
                        /\ e.ReturnValue = e.Outcomes[n].ReturnValue

\* g's body { { return 5; print(1); } print(2); } printed nothing and
\* gave 5 to its caller: both blocks were left at the return
C15_Witness ==
  /\ pc = "done"
  /\ Output = << IntValue(5) >>
  /\ \E k \in 1..Len(Blocks) :
       /\ Len(Blocks[k].Statements) = 2
       /\ Len(Blocks[k].Outcomes) = 1
       /\ Blocks[k].Kind = "ReturnStatementResult"
       /\ Blocks[k].ReturnValue = IntValue(5)
       /\ Blocks[k].Statements[1].kind = "BlockStatement"

\* the parser is at a top-level entity that starts with a type keyword
\* (not void) followed by an identifier
AtTypeAndIdentifier ==
  /\ pc = "toplevel"
  /\ getKind(Lexer) \in {"Kw_bool", "Kw_int", "Kw_double", "Kw_string"}
  /\ getKind(Lex(Lexer)) = "Identifier"

CallReturns == SelectSeq(History, LAMBDA e : e.ev = "callReturn")

\* C17: when the body of a called function has been executed, the call
\* returns the value the body produced if the type of that value equals
\* the declared return type, and is fatal otherwise: also for an int from a
\* double function, and also when the body ended Normal, without a return
\* statement, where the value compared is the unset default value.
C17_ReturnTypeChecked ==
  \A k \in 1..Len(CallReturns) :
    LET e == CallReturns[k] IN
      ~e.BodyDied =>
        /\ e.Fatal <=> e.ReturnValue.Type # e.Type
        /\ e.Fatal => Fatal # ""
        /\ ~e.Fatal => e.Value = e.ReturnValue
        /\ e.Kind = "NormalStatementResult" => e.ReturnValue = VoidValue

\* double f() return 4; was called: the body returned the int 4 and the
\* call ended the run
C17_Witness ==
  /\ pc = "fatal"
  /\ Fatal = "function returns a value of another type"
  /\ Output = << >>
  /\ \E k \in 1..Len(CallReturns) :
       /\ CallReturns[k].Type = "DoubleType"
       /\ CallReturns[k].Kind = "ReturnStatementResult"
       /\ CallReturns[k].ReturnValue = IntValue(4)
       /\ CallReturns[k].Fatal

Assignments == SelectSeq(History, LAMBDA e : e.ev = "evaluateAssignment")

\* the innermost environment of the chain that holds the name, 0 for none
InnermostHolding(c, n) ==
  IF \A i \in 1..Len(c) : n \notin DOMAIN c[i] THEN 0
  ELSE CHOOSE i \in 1..Len(c) :
         /\ n \in DOMAIN c[i]
         /\ \A j \in (i + 1)..Len(c) : n \notin DOMAIN c[j]

\* C18: an assignment N = e to a name bound nowhere in the chain is fatal;
\* otherwise it is fatal exactly when the type of the value is not the
\* type of the innermost binding of N, an int for a double excepted; a
\* fatal assignment leaves every binding as it was; a successful one
\* changes the innermost binding of N and nothing else, adds no binding,
\* keeps the binding's type tag, stores the value when the types are
\* equal and the double equal to the int otherwise.
C18_AssignmentChangesOneBinding ==
  \A k \in 1..Len(Assignments) :
    LET e == Assignments[k]
        i == InnermostHolding(e.Before, e.Name)
    IN
      /\ e.Undefined <=> i = 0
      /\ e.Undefined => (e.Fatal /\ e.After = e.Before)
      /\ ~e.Undefined =>
           LET old == e.Before[i][e.Name]
               widening == old.Type = "DoubleType" /\ e.RHS.Type = "IntType"
           IN
             /\ e.Fatal <=> (old.Type # e.RHS.Type /\ ~widening)
             /\ e.Fatal => (e.After = e.Before /\ Fatal # "")
             /\ ~e.Fatal =>
                  /\ Len(e.After) = Len(e.Before)
                  /\ \A j \in 1..Len(e.Before) :
                       /\ DOMAIN e.After[j] = DOMAIN e.Before[j]
                       /\ \A n \in DOMAIN e.Before[j] :
                            (j # i \/ n # e.Name) => e.After[j][n] = e.Before[j][n]
                  /\ e.After[i][e.Name].Type = old.Type
                  /\ old.Type = e.RHS.Type => e.After[i][e.Name] = e.RHS
                  /\ widening => e.After[i][e.Name].DoubleVal = e.RHS.IntVal

\* double x = 1; { int y = 2; x = 3; print(x); } print(x); the int 3 was
\* stored in the top-level double x from inside the block
C18_Witness ==
  /\ pc = "done"
  /\ Output = << DoubleValue(3), DoubleValue(3) >>
  /\ TopLevelEnv["x"] = DoubleValue(3)
  /\ \E k \in 1..Len(Assignments) :
       /\ Assignments[k].Name = "x"
       /\ Assignments[k].RHS = IntValue(3)
       /\ Len(Assignments[k].Before) = 2
       /\ "x" \notin DOMAIN Assignments[k].Before[2]
       /\ ~Assignments[k].Fatal

RECURSIVE ClosingBrace(_, _)
\* the position of the brace that closes the block entered d levels deep
\* before position q, 0 when the source ends first
ClosingBrace(q, d) ==
  IF q > Len(source) THEN 0
  ELSE IF source[q].Kind = "LCurly" THEN ClosingBrace(q + 1, d + 1)
  ELSE IF source[q].Kind = "RCurly"
    THEN IF d = 1 THEN q ELSE ClosingBrace(q + 1, d - 1)
  ELSE ClosingBrace(q + 1, d)

\* the lists of open blocks a statement is parsed under
OpenBlocks == {<< >>, << 0 >>}

\* the assertions of parseBlock that failed
BlockAssertions(L) ==
  SelectSeq(L.diag, LAMBDA d : /\ d.sev = "Assertion"
                               /\ d.msg \in {"block mismatch",
                                              "first token in parseBlock()"})

\* C19: the list of open blocks is balanced: a statement parsed
\* successfully, at whatever position and depth it starts, leaves the
\* current block as it found it; a block statement parsed successfully
\* ends just after the brace that closes it; the block mismatch assertion
\* never fails; a block that the source does not close is a parse error;
\* between two top-level entities no block is open.
C19_BlocksBalanced ==
  /\ pc \in {"toplevel", "interpret", "done", "fatal"} => Lexer.CurrentBlock = << >>
  /\ BlockAssertions(Lexer) = << >>
  /\ pc = "toplevel" =>
       \A q \in 1..Len(source) : \A cb \in OpenBlocks :
         LET r == parseStatement([Lexer EXCEPT !.pos = q, !.CurrentBlock = cb]) IN
           /\ BlockAssertions(r.L) = << >>
           /\ ~r.err => r.L.CurrentBlock = cb
           /\ source[q].Kind = "LCurly" =>
                IF ClosingBrace(q + 1, 1) = 0 THEN r.err
                ELSE ~r.err => r.L.pos = ClosingBrace(q + 1, 1) + 1

\* a source with a block in a block was parsed to its end, and one of its
\* statements was parsed two blocks deep
C19_Witness ==
  /\ pc = "interpret"
  /\ Lexer.CurrentBlock = << >>
  /\ \E i \in 1..Len(TopLevelBlock) :
       /\ TopLevelBlock[i].kind = "BlockStatement"
       /\ \E j \in 1..Len(TopLevelBlock[i].StatementList) :
            /\ TopLevelBlock[i].StatementList[j].kind = "BlockStatement"
            /\ TopLevelBlock[i].StatementList[j].StatementList # << >>

Executions == SelectSeq(History, LAMBDA e : e.ev = "executeStatement")

\* C20: the outcome of executing a statement is Normal or Return, never
\* Break or Continue: executing a while, for, break or continue statement
\* ends the run in a fatal runtime error; Return comes from a return
\* statement or from a block that holds one.
C20_OnlyNormalAndReturn ==
  /\ \A k \in 1..Len(Executions) :
       LET e == Executions[k] IN
         /\ e.Kind \in {"NormalStatementResult", "ReturnStatementResult"}
         /\ e.Stmt \in {"WhileStatement", "ForStatement", "BreakStatement",
                         "ContinueStatement"} =>
              /\ pc = "fatal"
              /\ Fatal = "single declaration should not be used by user"
              /\ \A j \in k..Len(Executions) : Executions[j].Died
         /\ e.Kind = "ReturnStatementResult" =>
              e.Stmt \in {"ReturnStatement", "BlockStatement"}
  /\ \A k \in 1..Len(Turns) :
       Turns[k].Kind \in {"NormalStatementResult", "ReturnStatementResult"}
  /\ \A k \in 1..Len(Blocks) :
       Blocks[k].Kind \in {"NormalStatementResult", "ReturnStatementResult"}

\* { print(1); break; print(2); } print(3); printed 1 and ended at the break
C20_Witness ==
  /\ pc = "fatal"
  /\ Fatal = "single declaration should not be used by user"
  /\ Output = << IntValue(1) >>
  /\ Len(Executions) = 2
  /\ Executions[2].Stmt = "BreakStatement"
  /\ Executions[2].Died

IfExecutions == SelectSeq(Executions, LAMBDA e : e.Stmt = "IfStatement")

\* C21: executing an if statement has no effect: its outcome is Normal
\* whatever the condition and the branches are, every environment of the
\* chain is as before, nothing is printed and nothing is evaluated or
\* executed inside it; a source whose only return, assignment, print or
\* undefined name is inside an if statement runs as if the if statement
\* were not there.
C21_IfStatementHasNoEffect ==
  /\ \A k \in 1..Len(IfExecutions) :
       LET e == IfExecutions[k] IN
         /\ e.Kind = "NormalStatementResult"
         /\ ~e.Died
         /\ e.After = e.Before
         /\ e.Printed = 0
         /\ e.Inner = 0
  /\ source \in IfPrograms =>
       /\ Fatal = ""
       /\ Output \in {<< >>, << IntValue(1) >>}
       /\ pc = "done" => Output = << IntValue(1) >>

\* int x = 1; if (y) return 2; else x = 8; print(x);  has printed 1
C21_Witness ==
  /\ pc = "done"
  /\ Len(TopLevelBlock) = 3
  /\ TopLevelBlock[2].kind = "IfStatement"
  /\ TopLevelBlock[2].Condition = IdentifierAST("y")
  /\ TopLevelBlock[2].StatementThen.kind = "ReturnStatement"
  /\ TopLevelBlock[2].StatementElse # Null
  /\ Len(IfExecutions) = 1
  /\ Output = << IntValue(1) >>

\* the assertions at the start of parseFunctionDefinition(RetType, Name)
\* that failed
FunctionAssertions(L) ==
  SelectSeq(L.diag, LAMBDA d : /\ d.sev = "Assertion"
                               /\ d.msg = "parseFunctionDefinition: unknown token")

\* the entity at the current token is  void identifier  followed by a
\* token that is not a left parenthesis
AtVoidWithoutParen ==
  /\ AtStatement
  /\ getKind(Lexer) = "Kw_void"
  /\ getKind(Lex(Lexer)) = "Identifier"
  /\ getKind(Lex(Lex(Lexer))) # "LParen"

\* C22: the assertion at the start of parseFunctionDefinition(RetType,
\* Name) that the current token is a left parenthesis never fails, and a
\* top-level  void identifier  followed by another token is reported
\* through Error.
C22_AssertionHolds ==
  /\ FunctionAssertions(Lexer) = << >>
  /\ AtVoidWithoutParen =>
       LET r == parseTopLevel(Lexer) IN
         /\ r.err
         /\ Len(Errors(r.L)) > Len(Errors(Lexer))

\* C22, what does hold: the assertion fails only for an entity that starts
\* with void, and it fails for every  void identifier  that is not
\* followed by a left parenthesis; no Error is reported then and nothing
\* is registered.
C22_AssertionFailsOnlyAfterVoid ==
  [][/\ FunctionAssertions(Lexer') # FunctionAssertions(Lexer) =>
          AtVoidWithoutParen
     /\ AtVoidWithoutParen =>
          /\ Len(FunctionAssertions(Lexer')) = Len(FunctionAssertions(Lexer)) + 1
          /\ Errors(Lexer') = Errors(Lexer)
          /\ pc' = "parseFailed"
          /\ UNCHANGED << BinOpPrecedence, InfixOpDefinition, FunctionDefinition,
                          TopLevelBlock >>]_vars

\* print(0); void x; print(1);  the assertion failed at the semicolon
C22_Witness ==
  /\ pc = "parseFailed"
  /\ Len(source) > 7
  /\ source[6].Kind = "Kw_void" /\ source[7].Kind = "Identifier"
  /\ source[8].Kind = "Semicolon"
  /\ Lexer.pos = 8
  /\ Len(FunctionAssertions(Lexer)) = 1
  /\ Errors(Lexer) = << >>
  /\ Len(TopLevelBlock) = 1

OperandEvents == SelectSeq(History, LAMBDA e : e.ev = "operands")

\* C23: for every binary operator other than = and [], the left operand
\* is evaluated first and the right operand is evaluated whenever the left
\* one did not end the run, && and || included, and the operator is applied
\* after both: what the right operand prints, assigns or fails on happens
\* even when the left operand decides the logical result, and what the left
\* operand prints comes before what the right one prints.
C23_BothOperandsLeftFirst ==
  /\ \A k \in 1..Len(OperandEvents) :
       LET e == OperandEvents[k] IN
         /\ e.OpKind \notin {"Assign", "Index"}
         /\ ~e.Right => (e.Died /\ ~e.Applied)
         /\ e.Applied => e.Right
  /\ (source \in OrderCallPrograms /\ pc \in {"done", "fatal"}) =>
       /\ Len(Output) >= 2
       /\ Output[1] = IntValue(1) /\ Output[2] = IntValue(2)
       /\ Len(OperandEvents) = 1 /\ OperandEvents[1].Right
  /\ source \in OrderRightFatalPrograms =>
       /\ pc # "done"
       /\ Output = << >>
       /\ pc = "fatal" => Fatal = "variable is undefined"
  /\ source \in OrderLeftFatalPrograms =>
       /\ pc # "done"
       /\ Output = << >>
       /\ pc = "fatal" =>
            (Fatal = "variable is undefined" /\ ~OperandEvents[1].Right)
  /\ (source \in OrderAssignPrograms /\ pc = "done") =>
       /\ Len(Output) = 2
       /\ Output[2] = BoolValue(~source[4].BoolVal)

\* bool f() { print(1); return true; } bool g() { print(2); return false; }
\* print(f() || g());  has printed 1, 2 and true
C23_Witness ==
  /\ source \in OrderCallPrograms
  /\ pc = "done"
  /\ Len(OperandEvents) = 1
  /\ OperandEvents[1].OpKind = "LogicalOr"
  /\ OperandEvents[1].LHS = BoolValue(TRUE)
  /\ OperandEvents[1].Right
  /\ Output = << IntValue(1), IntValue(2), BoolValue(TRUE) >>

RECURSIVE HasModulo(_)
\* the expression holds a modulo operator
HasModulo(e) ==
  /\ e.kind = "BinaryOperatorExpression"
  /\ \/ e.OpKind = "Modulo"
     \/ HasModulo(e.LHS)
     \/ HasModulo(e.RHS)

\* C24: % is parsed as a binary operator of precedence 11, that of * and
\* /, and applying it at run time is fatal whatever the two operand values
\* are: the run ends with the unknown binary operator kind error and the
\* statement prints nothing, while +, -, * and / applied to the same ints
\* are not.
C24_ModuloIsFatal ==
  /\ \A k \in 1..Len(Calcs) :
       Calcs[k].OpKind = "Modulo" =>
         /\ Calcs[k].Fatal
         /\ Fatal = "unknown binary operator kind"
         /\ k = Len(Calcs)
  /\ \A k \in 1..Len(Calcs) :
       (/\ Calcs[k].OpKind \in {"Add", "Minus", "Multiply", "Division"}
        /\ Calcs[k].LHS.Type = "IntType" /\ Calcs[k].RHS.Type = "IntType"
        /\ Calcs[k].RHS.IntVal # 0) => ~Calcs[k].Fatal
  /\ \A q \in 1..Len(source) :
       source[q].Kind = "Percent" =>
         getBinOpPrecedence([Lexer EXCEPT !.pos = q]) = 11
  /\ source \in ModuloPrograms =>
       /\ pc # "parseFailed"
       /\ TopLevelBlock # << >> =>
            LET e == TopLevelBlock[1].Expression.Arguments[1] IN
              /\ pc = "done" => (~HasModulo(e) /\ Len(Output) = 2)
              /\ (HasModulo(e) /\ pc = "fatal") =>
                   (Output = << >> /\ Fatal = "unknown binary operator kind")
              /\ Len(source) > 12 =>
                   LET m == create("Percent", IntAST(7), IntAST(3))
                       n == create("Percent", create("Star", IntAST(1), IntAST(7)),
                                   IntAST(3))
                   IN e = CASE source[4].Kind = "Plus" /\ source[8].Kind = "Plus" ->
                                  create("Plus", create("Plus", IntAST(1), m), IntAST(2))
                            [] source[4].Kind = "Plus" /\ source[8].Kind = "Star" ->
                                  create("Plus", IntAST(1), create("Star", m, IntAST(2)))
                            [] source[4].Kind = "Star" /\ source[8].Kind = "Plus" ->
                                  create("Plus", n, IntAST(2))
                            [] source[4].Kind = "Star" /\ source[8].Kind = "Star" ->
                                  create("Star", n, IntAST(2))

\* print(7 % 3); print(9);  ended in the fatal error with nothing printed
C24_Witness ==
  /\ pc = "fatal"
  /\ Fatal = "unknown binary operator kind"
  /\ Output = << >>
  /\ Len(Calcs) = 1
  /\ Calcs[1].OpKind = "Modulo"
  /\ Calcs[1].LHS = IntValue(7) /\ Calcs[1].RHS = IntValue(3)

\* parse() has returned success
ParseSucceeded == pc \in {"interpret", "done", "fatal"}

\* the source holds an error token
ErrorTokens == {q \in 1..Len(source) : source[q].Kind = "Error"}

\* C25: parse() returns failure whenever the source holds an error token,
\* wherever it is met, and returns success only when every token up to the
\* end of the source was consumed by top-level entities.
C25_ErrorTokenFailsParse ==
  /\ ErrorTokens # {} => ~ParseSucceeded
  /\ ParseSucceeded => Lexer.pos > Len(source)

\* C25, what does hold: parse() returns success exactly when the loop
\* comes to the end of the source or to an error token where a top-level
\* entity would start, leaving that token and all that follows unread; an
\* error token met inside an entity makes that entity, and parse(), fail.
C25_ErrorTokenEndsParse ==
  /\ ParseSucceeded =>
       getKind(Lexer) \in {"Eof", "Error"}
  /\ (AtStatement /\ getKind(Lexer) \in {"Eof", "Error"}) =>
       ENABLED ParseReturn /\ ~ENABLED ParseTopLevel
  /\ (AtStatement /\ getKind(Lexer) # "Error" /\ source \in ErrorTokenPrograms
        /\ \E q \in ErrorTokens : Lexer.pos < q /\ q <= StmtEnd(Lexer.pos)) =>
       parseTopLevel(Lexer).err
  /\ (pc = "parseFailed" /\ source \in ErrorTokenPrograms) =>
       /\ Errors(Lexer) # << >>
       /\ \E q \in ErrorTokens : q = Lexer.pos

\* print(1); <error token> print(2);  was parsed with success up to the
\* error token and run: it printed 1
C25_Witness ==
  /\ pc = "done"
  /\ ErrorTokens = {6}
  /\ Len(source) = 11
  /\ Lexer.pos = 6
  /\ Errors(Lexer) = << >>
  /\ Len(TopLevelBlock) = 1
  /\ Output = << IntValue(1) >>

====
